---- MODULE Spec2Model ----
(***************************************************************************)
(* Material pipeline specialization and render-phase assignment of        *)
(* crates/bevy_pbr/src/material.rs, for one material type M.              *)
(*                                                                         *)
(* One frame is the sequence of systems                                    *)
(*   check_entities_needing_specialization   (main world, PostUpdate)      *)
(*   camera phase extraction                 (ExtractSchedule)             *)
(*   extract_mesh_materials                  (ExtractSchedule)             *)
(*   extract_entities_needs_specialization   (ExtractSchedule)             *)
(*   prepare_assets / check_views_need_specialization (PrepareAssets)      *)
(*   specialize_material_meshes              (PrepareMeshes)               *)
(*   queue_material_meshes                   (QueueMeshes)                 *)
(* Between two frames the main world is edited (pc = "update").           *)
(***************************************************************************)
EXTENDS Integers, Sequences, FiniteSets, TLC

\* ------------------------------------------------------------------ bounds
\* Frames run per behaviour, and main-world edits / retry outcomes per behaviour.
MaxFrames == 3
MaxEdits == 2

\* ------------------------------------------------------------ the universe
NONE == "none"
Views == <<"v1", "v2">>
ViewSet == {Views[i] : i \in 1..Len(Views)}
Entities == {"e1", "e2"}
Materials == {"m1", "m2"}
Meshes == {"k1", "k2"}
Pairs == ViewSet \X Entities
PhaseTypes == {"Opaque", "AlphaMask", "Transmissive", "Transparent"}

Range(s) == {s[i] : i \in 1..Len(s)}

\* Option<T>: None, or Some(x).
None == <<>>
Some(x) == <<x>>
IsSome(o) == o # <<>>
Get(o) == o[1]

\* Material::alpha_mode, opaque_render_method, depth_bias,
\* reads_view_transmission_texture and the AsBindGroup data of each asset.
MaterialAsset(m) ==
    IF m = "m1"
    THEN [alpha_mode |-> "Opaque", opaque_render_method |-> "Forward",
          depth_bias |-> 0, reads_view_transmission_texture |-> FALSE,
          data |-> "d1"]
    ELSE [alpha_mode |-> "Blend", opaque_render_method |-> "Forward",
          depth_bias |-> 1, reads_view_transmission_texture |-> FALSE,
          data |-> "d2"]

\* The vertex layout and key bits of each mesh asset (mesh provider).
MeshLayout(k) == IF k = "k1" THEN "layout_a" ELSE "layout_b"
MeshKeyBits(k) == {"PRIMITIVE_TOPOLOGY_TRIANGLE_LIST"}

\* The view keys a view can have (MSAA off / 4 samples).
ViewKeys == {{}, {"MSAA_4"}}
MsaaSamples(view_key) == IF "MSAA_4" \in view_key THEN 4 ELSE 1

\* View-space depth of an entity's translation (rangefinder input).
RangefinderDistance(v, e) == IF e = "e1" THEN 2 ELSE 5

\* Bind group indices of the allocator, one per material at most.
GroupIds == 0..(Cardinality(Materials) - 1)
MaterialOrder == <<"m1", "m2">>

\* DefaultOpaqueRendererMethod resource (its Default).
DefaultOpaqueRendererMethod == "Forward"

\* --------------------------------------------------------------- variables
VARIABLES
    \* the scene: material assets, the DefaultOpaqueRendererMethod resource,
    \* and the lightmaps and crossfading visibility ranges of the entities
    material_assets, default_opaque_render_method,
    render_lightmaps, render_visibility_ranges,
    \* the RenderMeshInstanceFlags of the mesh instance of each entity
    render_mesh_instance_flags,
    \* the vertex layouts Material::specialize of M declines
    declined_layouts,
    \* main world
    mesh3d, mesh_material, visible, view_active, view_key,
    changed, mat_changed, removed, asset_events,
    entities_needing_specialization,
    \* render world
    render_material_instances, render_mesh_material_ids,
    render_mesh_instances, render_meshes,
    render_materials, render_material_bindings, allocator, prepare_next_update,
    bind_groups,
    view_key_cache, view_specialization_ticks, entity_specialization_ticks,
    specialized_material_pipeline_cache, pipelines,
    \* the (key, value) entries held by the HashMap of the cache
    cache_map,
    opaque_render_phases, alpha_mask_render_phases,
    transmissive_render_phases, transparent_render_phases,
    \* schedule
    change_tick, pc, frame, edits,
    \* what the last specialization / binning pass did, and the view and
    \* entity ticks each cache entry was specialized under
    slog, qlog, spec_ticks,
    \* a second material type N (MaterialPlugin<N>): its entity ticks, its
    \* cache, and the number of frames in which its passes have run
    other_entity_specialization_ticks,
    other_specialized_material_pipeline_cache, other_passes,
    \* the pipeline ids whose compilation has finished (PipelineCache)
    ready_pipelines,
    \* what SetMaterialBindGroup::render answered and set for the items of
    \* each (view, entity) when the phases were last drawn, and the number
    \* of frames drawn
    render_pass, rendered

scene_vars == <<material_assets, default_opaque_render_method,
                render_lightmaps, render_visibility_ranges,
                render_mesh_instance_flags, declined_layouts>>
main_vars == <<mesh3d, mesh_material, visible, view_active, view_key,
               changed, mat_changed, removed, asset_events>>
asset_vars == <<render_meshes, render_materials, render_material_bindings,
                allocator, prepare_next_update, bind_groups>>
instance_vars == <<render_material_instances, render_mesh_material_ids,
                   render_mesh_instances>>
tick_vars == <<view_key_cache, view_specialization_ticks,
               entity_specialization_ticks>>
cache_vars == <<specialized_material_pipeline_cache, pipelines, cache_map>>
phase_vars == <<opaque_render_phases, alpha_mask_render_phases,
                transmissive_render_phases, transparent_render_phases>>
log_vars == <<slog, qlog, spec_ticks>>
device_vars == <<ready_pipelines, render_pass, rendered>>
other_vars == <<other_entity_specialization_ticks,
                other_specialized_material_pipeline_cache, other_passes>>
vars == <<scene_vars, main_vars, entities_needing_specialization, asset_vars,
          instance_vars, tick_vars, cache_vars, phase_vars,
          change_tick, pc, frame, edits, log_vars, other_vars, device_vars>>

EmptySlog == [attempted |-> {}, calls |-> {}, errors |-> {}, stored |-> {},
              replaced |-> {}, retried |-> {}, panicked |-> FALSE]
EmptyQlog == [swept |-> {}, validated |-> {}, added |-> {}]
FreeGroup == [state |-> "free", data |-> NONE]
NoEvents == [mat_modified |-> {}, mat_removed |-> {},
             mesh_modified |-> {}, mesh_removed |-> {}]

\* ------------------------------------------------------------------- Init
\* The resources as init_resource builds them (all empty), and a freshly
\* spawned scene: every entity, asset and view was just added.
InitRenderWorld ==
    /\ view_active = [v \in ViewSet |-> TRUE]
    /\ view_key = [v \in ViewSet |-> {}]
    /\ removed = {}
    /\ asset_events = [mat_modified |-> Materials, mat_removed |-> {},
                       mesh_modified |-> Meshes, mesh_removed |-> {}]
    /\ entities_needing_specialization = {}
    /\ render_material_instances = [e \in Entities |-> NONE]
    /\ render_mesh_material_ids = [e \in Entities |-> None]
    /\ render_mesh_instances = [e \in Entities |-> NONE]
    /\ render_meshes = {}
    /\ render_materials = [m \in Materials |-> None]
    /\ render_material_bindings = [m \in Materials |-> None]
    /\ allocator = [g \in GroupIds |-> FreeGroup]
    /\ prepare_next_update = {}
    /\ bind_groups = {}
    /\ view_key_cache = [v \in ViewSet |-> None]
    /\ view_specialization_ticks = [v \in ViewSet |-> None]
    /\ entity_specialization_ticks = [e \in Entities |-> None]
    /\ specialized_material_pipeline_cache = [p \in Pairs |-> None]
    /\ cache_map = {}
    /\ pipelines = <<>>
    /\ opaque_render_phases = [v \in ViewSet |-> None]
    /\ alpha_mask_render_phases = [v \in ViewSet |-> None]
    /\ transmissive_render_phases = [v \in ViewSet |-> None]
    /\ transparent_render_phases = [v \in ViewSet |-> None]
    /\ change_tick = 1
    /\ pc = "update"
    /\ frame = 0
    /\ edits = 0
    /\ slog = EmptySlog
    /\ qlog = EmptyQlog
    /\ spec_ticks = [p \in Pairs |-> None]
    /\ other_entity_specialization_ticks = [e \in Entities |-> None]
    /\ other_specialized_material_pipeline_cache = [p \in Pairs |-> None]
    /\ other_passes = 0
    /\ ready_pipelines = {}
    /\ render_pass = [p \in Pairs |-> None]
    /\ rendered = 0

\* Both entities carry a Mesh3d and are seen by both views.
InitResources ==
    /\ InitRenderWorld
    /\ mesh3d = [e \in Entities |-> "k1"]
    /\ visible = [v \in ViewSet |-> <<"e1", "e2">>]
    /\ changed = Entities

\* Every entity has a material of type M; e1 has m1.
InitWorld ==
    /\ InitResources
    /\ mesh_material \in {f \in [Entities -> Materials] : f["e1"] = "m1"}
    /\ mat_changed = Entities

\* No lightmap on any entity, no crossfading visibility range.
NoLightmap == [present |-> FALSE, bicubic_sampling |-> FALSE]

\* The scene of two materials (an opaque and a blended one), rendered
\* forward, without lightmaps and visibility ranges.
Init ==
    /\ InitWorld
    /\ material_assets = [m \in Materials |-> MaterialAsset(m)]
    /\ default_opaque_render_method = DefaultOpaqueRendererMethod
    /\ render_lightmaps = [e \in Entities |-> NoLightmap]
    /\ render_visibility_ranges = {}
    /\ render_mesh_instance_flags = [e \in Entities |-> {}]
    /\ declined_layouts = {"layout_b"}

\* ------------------------------------------------ main-world edits (input)
CanEdit == pc = "update" /\ edits < MaxEdits /\ frame < MaxFrames

\* MeshMaterial3d<M> is inserted, replaced (m in Materials) or removed (NONE).
SetMaterial(e, m) ==
    /\ CanEdit
    /\ mesh3d[e] # NONE
    /\ m # mesh_material[e]
    /\ mesh_material' = [mesh_material EXCEPT ![e] = m]
    /\ IF m = NONE
       THEN /\ removed' = removed \cup {e}
            /\ UNCHANGED <<changed, mat_changed>>
       ELSE /\ changed' = changed \cup {e}
            /\ mat_changed' = mat_changed \cup {e}
            /\ UNCHANGED removed
    /\ edits' = edits + 1
    /\ UNCHANGED <<device_vars, other_vars, scene_vars, mesh3d, visible, view_active, view_key, asset_events,
                   entities_needing_specialization, asset_vars, instance_vars,
                   tick_vars, cache_vars, phase_vars, change_tick, pc, frame,
                   log_vars>>

\* Mesh3d is replaced by another mesh handle.
SetMesh(e, k) ==
    /\ CanEdit
    /\ mesh3d[e] # NONE
    /\ k # mesh3d[e]
    /\ mesh3d' = [mesh3d EXCEPT ![e] = k]
    /\ changed' = changed \cup {e}
    /\ edits' = edits + 1
    /\ UNCHANGED <<device_vars, other_vars, scene_vars, mesh_material, visible, view_active, view_key, mat_changed,
                   removed, asset_events, entities_needing_specialization,
                   asset_vars, instance_vars, tick_vars, cache_vars,
                   phase_vars, change_tick, pc, frame, log_vars>>

RemoveFrom(s, e) == SelectSeq(s, LAMBDA x : x # e)

\* The entity is despawned: its components are removed and no view sees it.
Despawn(e) ==
    /\ CanEdit
    /\ mesh3d[e] # NONE
    /\ mesh3d' = [mesh3d EXCEPT ![e] = NONE]
    /\ mesh_material' = [mesh_material EXCEPT ![e] = NONE]
    /\ visible' = [v \in ViewSet |-> RemoveFrom(visible[v], e)]
    /\ changed' = changed \ {e}
    /\ mat_changed' = mat_changed \ {e}
    /\ removed' = removed \cup {e}
    /\ edits' = edits + 1
    /\ UNCHANGED <<device_vars, other_vars, scene_vars, view_active, view_key, asset_events,
                   entities_needing_specialization, asset_vars, instance_vars,
                   tick_vars, cache_vars, phase_vars, change_tick, pc, frame,
                   log_vars>>

ViewVisibility(vis, e) == \E v \in ViewSet : e \in Range(vis[v])

\* Visibility of e from v flips (culling result of the visibility provider).
SetVisible(v, e) ==
    /\ CanEdit
    /\ mesh3d[e] # NONE
    /\ visible' = [visible EXCEPT ![v] =
                     IF e \in Range(@) THEN RemoveFrom(@, e) ELSE Append(@, e)]
    /\ mat_changed' = IF ViewVisibility(visible', e) # ViewVisibility(visible, e)
                      THEN mat_changed \cup {e} ELSE mat_changed
    /\ edits' = edits + 1
    /\ UNCHANGED <<device_vars, other_vars, scene_vars, mesh3d, mesh_material, view_active, view_key, changed,
                   removed, asset_events, entities_needing_specialization,
                   asset_vars, instance_vars, tick_vars, cache_vars,
                   phase_vars, change_tick, pc, frame, log_vars>>

\* The camera of v is switched on or off (its render phases come and go).
SetViewActive(v) ==
    /\ CanEdit
    /\ view_active' = [view_active EXCEPT ![v] = ~@]
    /\ edits' = edits + 1
    /\ UNCHANGED <<device_vars, other_vars, scene_vars, mesh3d, mesh_material, visible, view_key, changed,
                   mat_changed, removed, asset_events,
                   entities_needing_specialization, asset_vars, instance_vars,
                   tick_vars, cache_vars, phase_vars, change_tick, pc, frame,
                   log_vars>>

\* The feature key of v changes (e.g. its MSAA setting).
ChangeViewKey(v, key) ==
    /\ CanEdit
    /\ key # view_key[v]
    /\ view_key' = [view_key EXCEPT ![v] = key]
    /\ edits' = edits + 1
    /\ UNCHANGED <<device_vars, other_vars, scene_vars, mesh3d, mesh_material, visible, view_active, changed,
                   mat_changed, removed, asset_events,
                   entities_needing_specialization, asset_vars, instance_vars,
                   tick_vars, cache_vars, phase_vars, change_tick, pc, frame,
                   log_vars>>

\* A material asset is added or modified: AssetChanged<MeshMaterial3d<M>>
\* holds for the entities that use it, and the asset is extracted.
ModifyMaterialAsset(m) ==
    /\ CanEdit
    /\ asset_events' = [asset_events EXCEPT !.mat_modified = @ \cup {m},
                                            !.mat_removed = @ \ {m}]
    /\ changed' = changed \cup {e \in Entities : mesh_material[e] = m}
    /\ edits' = edits + 1
    /\ UNCHANGED <<device_vars, other_vars, scene_vars, mesh3d, mesh_material, visible, view_active, view_key,
                   mat_changed, removed, entities_needing_specialization,
                   asset_vars, instance_vars, tick_vars, cache_vars,
                   phase_vars, change_tick, pc, frame, log_vars>>

\* A material asset is removed (unloaded).
RemoveMaterialAsset(m) ==
    /\ CanEdit
    /\ asset_events' = [asset_events EXCEPT !.mat_removed = @ \cup {m},
                                            !.mat_modified = @ \ {m}]
    /\ edits' = edits + 1
    /\ UNCHANGED <<device_vars, other_vars, scene_vars, mesh3d, mesh_material, visible, view_active, view_key,
                   changed, mat_changed, removed,
                   entities_needing_specialization, asset_vars, instance_vars,
                   tick_vars, cache_vars, phase_vars, change_tick, pc, frame,
                   log_vars>>

\* A mesh asset is removed (unloaded).
RemoveMeshAsset(k) ==
    /\ CanEdit
    /\ asset_events' = [asset_events EXCEPT !.mesh_removed = @ \cup {k},
                                            !.mesh_modified = @ \ {k}]
    /\ edits' = edits + 1
    /\ UNCHANGED <<device_vars, other_vars, scene_vars, mesh3d, mesh_material, visible, view_active, view_key,
                   changed, mat_changed, removed,
                   entities_needing_specialization, asset_vars, instance_vars,
                   tick_vars, cache_vars, phase_vars, change_tick, pc, frame,
                   log_vars>>

\* A mesh asset is added or modified: AssetChanged<Mesh3d> holds for its users.
ModifyMeshAsset(k) ==
    /\ CanEdit
    /\ asset_events' = [asset_events EXCEPT !.mesh_modified = @ \cup {k},
                                            !.mesh_removed = @ \ {k}]
    /\ changed' = changed \cup {e \in Entities : mesh3d[e] = k}
    /\ edits' = edits + 1
    /\ UNCHANGED <<device_vars, other_vars, scene_vars, mesh3d, mesh_material, visible, view_active, view_key,
                   mat_changed, removed, entities_needing_specialization,
                   asset_vars, instance_vars, tick_vars, cache_vars,
                   phase_vars, change_tick, pc, frame, log_vars>>

\* ------------------------------------------------- main world, PostUpdate
\* The system without the clear: the list keeps what it held.
CheckEntitiesNeedingSpecialization_NoClear ==
    /\ pc = "update"
    /\ frame < MaxFrames
    /\ entities_needing_specialization' =
          entities_needing_specialization
             \cup {e \in changed : mesh3d[e] # NONE}
    /\ changed' = {}
    /\ pc' = "extract_phases"
    /\ UNCHANGED <<device_vars, other_vars, scene_vars, mesh3d, mesh_material,
                   visible, view_active, view_key, mat_changed, removed,
                   asset_events, asset_vars, instance_vars, tick_vars,
                   cache_vars, phase_vars, change_tick, frame, edits,
                   log_vars>>

\* check_entities_needing_specialization: the list is rebuilt from the
\* entities matched by the Changed / AssetChanged filters.
CheckEntitiesNeedingSpecialization ==
    /\ pc = "update"
    /\ frame < MaxFrames
    /\ entities_needing_specialization' = {e \in changed : mesh3d[e] # NONE}
    /\ changed' = {}
    /\ pc' = "extract_phases"
    /\ UNCHANGED <<device_vars, other_vars, scene_vars, mesh3d, mesh_material, visible, view_active, view_key,
                   mat_changed, removed, asset_events, asset_vars,
                   instance_vars, tick_vars, cache_vars, phase_vars,
                   change_tick, frame, edits, log_vars>>

\* --------------------------------------------------------- ExtractSchedule
\* BinnedRenderPhase of a view: the cached bin key of each binned entity
\* (NONE: not binned) and the entities validated or added in this frame.
EmptyBinnedPhase == [cached |-> [e \in Entities |-> None], valid |-> {}]

\* BinnedRenderPhase::prepare_for_new_frame
PrepareForNewFrame(phase) == [phase EXCEPT !.valid = {}]

\* Camera extraction: a live camera gets its four phases (binned phases are
\* retained and prepared for the new frame, sorted phases are cleared), the
\* phases of any other view are dropped; mesh instances are re-extracted.
ExtractCameraPhases ==
    /\ pc = "extract_phases"
    /\ opaque_render_phases' = [v \in ViewSet |->
          IF ~view_active[v] THEN None
          ELSE IF opaque_render_phases[v] = None THEN Some(EmptyBinnedPhase)
          ELSE Some(PrepareForNewFrame(Get(opaque_render_phases[v])))]
    /\ alpha_mask_render_phases' = [v \in ViewSet |->
          IF ~view_active[v] THEN None
          ELSE IF alpha_mask_render_phases[v] = None THEN Some(EmptyBinnedPhase)
          ELSE Some(PrepareForNewFrame(Get(alpha_mask_render_phases[v])))]
    /\ transmissive_render_phases' = [v \in ViewSet |->
          IF view_active[v] THEN Some(<<>>) ELSE None]
    /\ transparent_render_phases' = [v \in ViewSet |->
          IF view_active[v] THEN Some(<<>>) ELSE None]
    /\ render_mesh_instances' = [e \in Entities |->
          IF mesh3d[e] # NONE /\ ViewVisibility(visible, e)
          THEN mesh3d[e] ELSE NONE]
    /\ pc' = "extract_materials"
    /\ UNCHANGED <<device_vars, other_vars, scene_vars, main_vars, entities_needing_specialization, asset_vars,
                   render_material_instances, render_mesh_material_ids,
                   tick_vars, cache_vars,
                   change_tick, frame, edits, log_vars>>

\* The entities matched by changed_meshes_query.
ChangedMeshesQuery ==
    {e \in mat_changed : mesh3d[e] # NONE /\ mesh_material[e] # NONE}

\* extract_mesh_materials, first loop.
ExtractChangedMeshes(instances) ==
    [e \in Entities |->
        IF e \in ChangedMeshesQuery
        THEN IF ViewVisibility(visible, e) THEN mesh_material[e] ELSE NONE
        ELSE instances[e]]

\* A second loop that removes the entity even if the first loop saw it.
ExtractRemovedMeshes_IgnoresChanged(instances) ==
    [e \in Entities |-> IF e \in removed THEN NONE ELSE instances[e]]

\* extract_mesh_materials, second loop.
ExtractRemovedMeshes(instances) ==
    [e \in Entities |->
        IF e \in removed /\ e \notin ChangedMeshesQuery
        THEN NONE ELSE instances[e]]

\* AssetId<M>::into: the untyped id of a material asset of type M.
UntypedAssetId(m) == [type_id |-> "M", id |-> m]

\* extract_mesh_materials: the two loops on RenderMeshMaterialIds.
ExtractChangedIds(ids) ==
    [e \in Entities |->
        IF e \in ChangedMeshesQuery
        THEN IF ViewVisibility(visible, e)
             THEN Some(UntypedAssetId(mesh_material[e])) ELSE None
        ELSE ids[e]]
ExtractRemovedIds(ids) ==
    [e \in Entities |->
        IF e \in removed /\ e \notin ChangedMeshesQuery
        THEN None ELSE ids[e]]

ExtractMeshMaterials ==
    /\ pc = "extract_materials"
    /\ render_material_instances' =
          ExtractRemovedMeshes(ExtractChangedMeshes(render_material_instances))
    /\ render_mesh_material_ids' =
          ExtractRemovedIds(ExtractChangedIds(render_mesh_material_ids))
    /\ mat_changed' = {}
    /\ removed' = {}
    /\ pc' = "extract_ticks"
    /\ UNCHANGED <<device_vars, other_vars, scene_vars, mesh3d, mesh_material, visible, view_active, view_key,
                   changed, asset_events, entities_needing_specialization,
                   asset_vars, render_mesh_instances, tick_vars, cache_vars,
                   phase_vars, change_tick, frame, edits, log_vars>>

\* The loop run over every entity instead of the listed ones.
ExtractedEntityTicks_AllEntities(ticks, this_run) ==
    [e \in Entities |-> Some(this_run)]

\* extract_entities_needs_specialization: the ticks after the loop.
ExtractedEntityTicks(ticks, this_run) ==
    [e \in Entities |->
        IF e \in entities_needing_specialization
        THEN Some(this_run) ELSE ticks[e]]

ExtractEntitiesNeedsSpecialization ==
    /\ pc = "extract_ticks"
    /\ entity_specialization_ticks' =
          ExtractedEntityTicks(entity_specialization_ticks, change_tick + 1)
    /\ change_tick' = change_tick + 1
    /\ pc' = "prepare_assets"
    /\ UNCHANGED <<device_vars, other_vars, scene_vars, main_vars, entities_needing_specialization, asset_vars,
                   instance_vars, view_key_cache, view_specialization_ticks,
                   cache_vars, phase_vars, frame, edits, log_vars>>

\* ------------------------------------------------ RenderSet::PrepareAssets
\* MaterialBindGroupAllocator (non-bindless): every group is "free",
\* "unprepared" (allocated, no data yet) or holds the data given to init.
AllocatorAllocate(a) ==
    LET g == CHOOSE x \in GroupIds :
                 /\ a[x].state = "free"
                 /\ \A y \in GroupIds : a[y].state = "free" => x <= y
    IN  [id |-> [group |-> g, slot |-> 0],
         allocator |-> [a EXCEPT ![g] = [state |-> "unprepared",
                                         data |-> NONE]]]
AllocatorInit(a, id, data) ==
    [a EXCEPT ![id.group] = [state |-> "initialized", data |-> data]]
AllocatorFree(a, id) == [a EXCEPT ![id.group] = FreeGroup]
\* get(group) is Some
AllocatorHas(a, group) == a[group].state = "initialized"
\* get(group).get_extra_data(slot)
AllocatorExtraData(a, id) == a[id.group].data

\* The phase type with the transmission flag looked at before the alpha mode.
RenderPhaseTypeOf_TransmissionFirst(alpha_mode, reads_view_transmission_texture) ==
    IF reads_view_transmission_texture THEN "Transmissive"
    ELSE IF alpha_mode \in {"Blend", "Premultiplied", "Add", "Multiply"}
    THEN "Transparent"
    ELSE IF alpha_mode \in {"Opaque", "AlphaToCoverage"} THEN "Opaque"
    ELSE "AlphaMask"

\* prepare_asset: the render phase type of a material.
RenderPhaseTypeOf(alpha_mode, reads_view_transmission_texture) ==
    IF alpha_mode \in {"Blend", "Premultiplied", "Add", "Multiply"}
    THEN "Transparent"
    ELSE IF reads_view_transmission_texture THEN "Transmissive"
    ELSE IF alpha_mode \in {"Opaque", "AlphaToCoverage"} THEN "Opaque"
    ELSE "AlphaMask"

\* The method stored as the material gives it (Auto is not resolved).
RenderMethodOf_KeepsAuto(method) == method

\* prepare_asset: the resolved render method.
RenderMethodOf(method) ==
    IF method = "Auto" THEN default_opaque_render_method ELSE method

\* prepare_asset: the MaterialProperties of a material.
MaterialPropertiesOf(m) ==
    LET a == material_assets[m]
        bits == IF a.reads_view_transmission_texture
                THEN {"READS_VIEW_TRANSMISSION_TEXTURE"} ELSE {}
        reads == "READS_VIEW_TRANSMISSION_TEXTURE" \in bits
        phase == RenderPhaseTypeOf(a.alpha_mode, reads)
    IN  [render_method |-> RenderMethodOf(a.opaque_render_method),
         alpha_mode |-> a.alpha_mode,
         mesh_pipeline_key_bits |-> bits,
         depth_bias |-> a.depth_bias,
         reads_view_transmission_texture |-> reads,
         render_phase_type |-> phase,
         draw_function_id |-> <<"DrawMaterial", phase>>]

\* prepare_asset(material, material_id) on st = [assets, bindings, allocator,
\* retry]; outcome is what unprepared_bind_group answers: "ok" or "retry".
PrepareAsset(st, m, outcome) ==
    LET alloc == IF st.bindings[m] = None
                 THEN AllocatorAllocate(st.allocator)
                 ELSE [id |-> Get(st.bindings[m]), allocator |-> st.allocator]
        bindings == [st.bindings EXCEPT ![m] = Some(alloc.id)]
    IN  IF outcome = "ok"
        THEN [assets |-> [st.assets EXCEPT ![m] =
                             Some([binding |-> alloc.id,
                                   properties |-> MaterialPropertiesOf(m)])],
              bindings |-> bindings,
              allocator |-> AllocatorInit(alloc.allocator, alloc.id,
                                          material_assets[m].data),
              retry |-> st.retry]
        ELSE [assets |-> st.assets,
              bindings |-> bindings,
              allocator |-> alloc.allocator,
              retry |-> st.retry \cup {m}]

\* An unload that removes the binding and does not free the allocation.
UnloadAsset_KeepsAllocation(st, m) ==
    [st EXCEPT !.assets[m] = None, !.bindings[m] = None]

\* RenderAssets::remove followed by unload_asset(source_asset).
UnloadAsset(st, m) ==
    IF st.bindings[m] = None
    THEN [st EXCEPT !.assets[m] = None]
    ELSE [st EXCEPT !.assets[m] = None,
                    !.bindings[m] = None,
                    !.allocator = AllocatorFree(st.allocator,
                                                Get(st.bindings[m]))]

\* The groups whose bind group a pass of prepare_assets drops: those freed by
\* unload_asset, and those given new contents by init or init_custom.
FreedGroups(bindings, gone) ==
    {Get(bindings[m]).group : m \in {n \in gone : bindings[n] # None}}
InitGroups(bindings, prepared) ==
    {Get(bindings[m]).group : m \in prepared}

\* prepare_assets::<PreparedMaterial<M>>: first the assets queued for a
\* retry, then the removed ones, then the extracted ones.
RECURSIVE PrepareQueued(_, _, _, _)
PrepareQueued(st, i, queued, retry) ==
    IF i > Len(MaterialOrder) THEN st
    ELSE LET m == MaterialOrder[i]
         IN  PrepareQueued(
                 IF m \in queued
                 THEN PrepareAsset(st, m, IF m \in retry THEN "retry" ELSE "ok")
                 ELSE st,
                 i + 1, queued, retry)

RECURSIVE UnloadRemoved(_, _, _)
UnloadRemoved(st, i, gone) ==
    IF i > Len(MaterialOrder) THEN st
    ELSE LET m == MaterialOrder[i]
         IN  UnloadRemoved(IF m \in gone THEN UnloadAsset(st, m) ELSE st,
                           i + 1, gone)

PrepareAssets ==
    /\ pc = "prepare_assets"
    /\ \E retry \in SUBSET (asset_events.mat_modified \cup prepare_next_update) :
          /\ edits + Cardinality(retry) <= MaxEdits
          /\ LET queued == prepare_next_update
                              \ (asset_events.mat_removed
                                 \cup asset_events.mat_modified)
                 st0 == [assets |-> render_materials,
                         bindings |-> render_material_bindings,
                         allocator |-> allocator,
                         retry |-> {}]
                 st1 == PrepareQueued(st0, 1, queued, retry)
                 st2 == UnloadRemoved(st1, 1, asset_events.mat_removed)
                 st3 == PrepareQueued(st2, 1, asset_events.mat_modified, retry)
             IN  /\ render_materials' = st3.assets
                 /\ render_material_bindings' = st3.bindings
                 /\ allocator' = st3.allocator
                 /\ prepare_next_update' = st3.retry
                 /\ bind_groups' =
                       bind_groups
                         \ (FreedGroups(render_material_bindings,
                                        asset_events.mat_removed)
                              \cup InitGroups(st3.bindings,
                                   (queued \cup asset_events.mat_modified)
                                      \ st3.retry))
          /\ edits' = edits + Cardinality(retry)
    /\ render_meshes' = (render_meshes \ asset_events.mesh_removed)
                            \cup asset_events.mesh_modified
    /\ asset_events' = NoEvents
    /\ pc' = "check_views"
    /\ UNCHANGED <<device_vars, other_vars, scene_vars, mesh3d, mesh_material, visible, view_active, view_key,
                   changed, mat_changed, removed,
                   entities_needing_specialization, instance_vars, tick_vars,
                   cache_vars, phase_vars, change_tick, frame, log_vars>>

\* check_views_need_specialization: a view whose key is new or differs from
\* the cached one gets the key cached and its tick set to this run's tick.
CheckViewsNeedSpecialization ==
    /\ pc = "check_views"
    /\ view_key_cache' = [v \in ViewSet |->
          IF view_active[v] THEN Some(view_key[v]) ELSE view_key_cache[v]]
    /\ view_specialization_ticks' = [v \in ViewSet |->
          IF view_active[v] /\ view_key_cache[v] # Some(view_key[v])
          THEN Some(change_tick + 1) ELSE view_specialization_ticks[v]]
    /\ change_tick' = change_tick + 1
    /\ pc' = "specialize"
    /\ UNCHANGED <<device_vars, other_vars, scene_vars, main_vars, entities_needing_specialization, asset_vars,
                   instance_vars, entity_specialization_ticks, cache_vars,
                   phase_vars, frame, edits, log_vars>>

\* ------------------------------------------------- RenderSet::PrepareMeshes
\* Tick::is_newer_than(self, last_run, this_run), for ticks far from the
\* wrap-around of the counter (relative_to is then plain subtraction and the
\* clamp to MAX_CHANGE_AGE is inactive).
IsNewerThan(self, last_run, this_run) ==
    (this_run - last_run) > (this_run - self)

\* A key function that tests the MSAA setting for every alpha mode that can
\* discard (Mask is treated as AlphaToCoverage is).
alpha_mode_pipeline_key_MaskByMsaa(alpha_mode, msaa_samples) ==
    IF alpha_mode \in {"Premultiplied", "Add"} THEN {"BLEND_PREMULTIPLIED_ALPHA"}
    ELSE IF alpha_mode = "Blend" THEN {"BLEND_ALPHA"}
    ELSE IF alpha_mode = "Multiply" THEN {"BLEND_MULTIPLY"}
    ELSE IF alpha_mode \in {"Mask", "AlphaToCoverage"}
         THEN IF msaa_samples = 1 THEN {"MAY_DISCARD"}
              ELSE {"BLEND_ALPHA_TO_COVERAGE"}
    ELSE {}

\* alpha_mode_pipeline_key(alpha_mode, msaa)
alpha_mode_pipeline_key(alpha_mode, msaa_samples) ==
    IF alpha_mode \in {"Premultiplied", "Add"} THEN {"BLEND_PREMULTIPLIED_ALPHA"}
    ELSE IF alpha_mode = "Blend" THEN {"BLEND_ALPHA"}
    ELSE IF alpha_mode = "Multiply" THEN {"BLEND_MULTIPLY"}
    ELSE IF alpha_mode = "Mask" THEN {"MAY_DISCARD"}
    ELSE IF alpha_mode = "AlphaToCoverage"
         THEN IF msaa_samples = 1 THEN {"MAY_DISCARD"}
              ELSE {"BLEND_ALPHA_TO_COVERAGE"}
    ELSE {}

\* RenderLightmaps, RenderVisibilityRanges and RenderMeshInstanceFlags of an
\* entity.
Lightmap(e) == render_lightmaps[e]
\* A crossfade test that answers for the whole scene instead of the entity.
HasCrossfadingVisibilityRanges_AnyEntity(e) == render_visibility_ranges # {}

HasCrossfadingVisibilityRanges(e) == e \in render_visibility_ranges
MeshInstanceFlags(e) == render_mesh_instance_flags[e]

\* The skin and morph history bits taken whatever the view runs.
PreviousFrameBits_Ungated(view_bits, e) ==
    MeshInstanceFlags(e) \cap {"HAS_PREVIOUS_SKIN", "HAS_PREVIOUS_MORPH"}

\* specialize_material_meshes: the bits added for the skin and morph targets
\* of the previous frame, when the view runs the motion vector prepass.
PreviousFrameBits(view_bits, e) ==
    IF "MOTION_VECTOR_PREPASS" \in view_bits
    THEN MeshInstanceFlags(e) \cap {"HAS_PREVIOUS_SKIN", "HAS_PREVIOUS_MORPH"}
    ELSE {}

\* needs_specialization without the comparison of the entity's tick.
NeedsSpecialization_IgnoresEntityTick(last, view_tick, entity_tick, this_run) ==
    \/ last = None
    \/ IsNewerThan(view_tick, Get(last).tick, this_run)

\* needs_specialization without the comparison of the view's tick.
NeedsSpecialization_IgnoresViewTick(last, view_tick, entity_tick, this_run) ==
    \/ last = None
    \/ IsNewerThan(entity_tick, Get(last).tick, this_run)

\* needs_specialization with receiver and argument of is_newer_than swapped.
NeedsSpecialization_SwappedTicks(last, view_tick, entity_tick, this_run) ==
    \/ last = None
    \/ IsNewerThan(Get(last).tick, view_tick, this_run)
    \/ IsNewerThan(Get(last).tick, entity_tick, this_run)

\* specialize_material_meshes: needs_specialization
NeedsSpecialization(last, view_tick, entity_tick, this_run) ==
    \/ last = None
    \/ IsNewerThan(view_tick, Get(last).tick, this_run)
    \/ IsNewerThan(entity_tick, Get(last).tick, this_run)

\* The let-else chain without the lookup of the render mesh.
UpstreamDataMissing_NoRenderMesh(e) ==
    \/ render_material_instances[e] = NONE
    \/ render_mesh_instances[e] = NONE
    \/ render_materials[render_material_instances[e]] = None
    \/ ~AllocatorHas(allocator,
           Get(render_materials[render_material_instances[e]]).binding.group)

\* specialize_material_meshes: the let-else chain on the upstream data; TRUE
\* when one of them makes the loop continue.
UpstreamDataMissing(e) ==
    \/ render_material_instances[e] = NONE
    \/ render_mesh_instances[e] = NONE
    \/ render_mesh_instances[e] \notin render_meshes
    \/ render_materials[render_material_instances[e]] = None
    \/ ~AllocatorHas(allocator,
           Get(render_materials[render_material_instances[e]]).binding.group)

\* specialize_material_meshes: the key of a pair whose data is present.
BuildKey(v, e) ==
    LET material == Get(render_materials[render_material_instances[e]])
        mesh == render_mesh_instances[e]
        view_bits == Get(view_key_cache[v])
        bits == material.properties.mesh_pipeline_key_bits
                  \cup alpha_mode_pipeline_key(material.properties.alpha_mode,
                                               MsaaSamples(view_bits))
        lightmap == IF Lightmap(e).present
                    THEN {"LIGHTMAPPED"}
                           \cup (IF Lightmap(e).bicubic_sampling
                                 THEN {"LIGHTMAP_BICUBIC_SAMPLING"} ELSE {})
                    ELSE {}
        dither == IF HasCrossfadingVisibilityRanges(e)
                  THEN {"VISIBILITY_RANGE_DITHER"} ELSE {}
        previous == PreviousFrameBits(view_bits, e)
    IN  [mesh_key |-> view_bits \cup MeshKeyBits(mesh) \cup bits
                        \cup lightmap \cup dither \cup previous,
         bind_group_data |-> AllocatorExtraData(allocator, material.binding)]

\* Material::specialize: Err for the vertex layouts the material declines.
MaterialSpecializeRejects(key, layout) == layout \in declined_layouts

\* Equality of keys that compares the mesh key bits only.
KeyEq_MeshKeyOnly(a, b) == a.mesh_key = b.mesh_key

\* PartialEq for MaterialPipelineKey.
KeyEq(a, b) ==
    a.mesh_key = b.mesh_key /\ a.bind_group_data = b.bind_group_data

\* Hash for MaterialPipelineKey: what is fed to the hasher.
KeyHash(k) == <<k.mesh_key, k.bind_group_data>>

\* A lookup that answers a hit with the id created last.
PipelinesSpecialize_NewestId(pipes, key, layout) ==
    LET entry == [layout |-> layout, key |-> key]
        hits == {i \in 1..Len(pipes) :
                    pipes[i].layout = layout /\ KeyEq(pipes[i].key, key)}
    IN  IF hits # {}
        THEN [ok |-> TRUE, id |-> Len(pipes), pipelines |-> pipes]
        ELSE IF MaterialSpecializeRejects(key, layout)
        THEN [ok |-> FALSE, id |-> 0, pipelines |-> pipes]
        ELSE [ok |-> TRUE, id |-> Len(pipes) + 1,
              pipelines |-> Append(pipes, entry)]

\* SpecializedMeshPipelines::specialize(cache, pipeline, key, layout): the id
\* already given to (layout, key), or a new one unless the material declines.
PipelinesSpecialize(pipes, key, layout) ==
    LET entry == [layout |-> layout, key |-> key]
        hits == {i \in 1..Len(pipes) :
                    pipes[i].layout = layout /\ KeyEq(pipes[i].key, key)}
    IN  IF hits # {}
        THEN [ok |-> TRUE, id |-> CHOOSE i \in hits : TRUE, pipelines |-> pipes]
        ELSE IF MaterialSpecializeRejects(key, layout)
        THEN [ok |-> FALSE, id |-> 0, pipelines |-> pipes]
        ELSE [ok |-> TRUE, id |-> Len(pipes) + 1,
              pipelines |-> Append(pipes, entry)]

\* A skip that drops the entry of the pair from the cache.
SpecializeSkip_Evicts(acc, pair) ==
    [acc EXCEPT !.cache[pair] = None]

\* specialize_material_meshes: the else arm of the let-else chain (continue).
SpecializeSkip(acc, pair) == acc

\* The Err arm leaving the pass (return in place of continue).
SpecializeError_Returns(acc, pair) ==
    [acc EXCEPT !.errors = @ \cup {pair}, !.panicked = TRUE]

\* specialize_material_meshes: the Err arm (error!(..); continue).
SpecializeError(acc, pair) ==
    [acc EXCEPT !.errors = @ \cup {pair}]

\* An insert that leaves the entries the map already has in place.
HashMapInsert_KeepsOld(map, key, value) ==
    map \cup {[key |-> key, value |-> value]}

\* HashMap::insert on the map of SpecializedMaterialPipelineCache: the entry
\* of the key, if any, is replaced.
HashMapInsert(map, key, value) ==
    {en \in map : en.key # key} \cup {[key |-> key, value |-> value]}

\* The insert made only once the pipeline has been compiled (a pending id
\* is not stored).
StoreSpecialized_WhenReady(acc, pair, this_run, pipeline_id) ==
    IF pipeline_id \in ready_pipelines
    THEN [acc EXCEPT !.cache[pair] = Some([tick |-> this_run,
                                           pipeline |-> pipeline_id]),
                     !.map = HashMapInsert(@, pair,
                                [tick |-> this_run, pipeline |-> pipeline_id]),
                     !.stored = @ \cup {pair},
                     !.replaced = IF acc.cache[pair] # None
                                  THEN @ \cup {pair} ELSE @]
    ELSE acc

\* The insert storing the tick the entry had (this run's tick is dropped).
StoreSpecialized_KeepsOldTick(acc, pair, this_run, pipeline_id) ==
    [acc EXCEPT !.cache[pair] =
                    Some([tick |-> IF acc.cache[pair] = None THEN 0
                                   ELSE Get(acc.cache[pair]).tick,
                          pipeline |-> pipeline_id]),
                !.map = HashMapInsert(@, pair,
                           [tick |-> IF acc.cache[pair] = None THEN 0
                                     ELSE Get(acc.cache[pair]).tick,
                            pipeline |-> pipeline_id]),
                !.stored = @ \cup {pair},
                !.replaced = IF acc.cache[pair] # None
                             THEN @ \cup {pair} ELSE @]

\* specialize_material_meshes: the insert into the cache.
StoreSpecialized(acc, pair, this_run, pipeline_id) ==
    [acc EXCEPT !.cache[pair] = Some([tick |-> this_run,
                                      pipeline |-> pipeline_id]),
                !.map = HashMapInsert(@, pair,
                           [tick |-> this_run, pipeline |-> pipeline_id]),
                !.stored = @ \cup {pair},
                !.replaced = IF acc.cache[pair] # None
                             THEN @ \cup {pair} ELSE @]

\* specialize_material_meshes: the body of the loop over visible entities.
\* acc = [cache, pipelines] and the record of what the pass did.
SpecializeEntity(acc, v, e, this_run) ==
    IF acc.panicked THEN acc
    ELSE IF view_specialization_ticks[v] = None
            \/ entity_specialization_ticks[e] = None
    THEN [acc EXCEPT !.panicked = TRUE]
    ELSE IF ~NeedsSpecialization(acc.cache[<<v, e>>],
                                 Get(view_specialization_ticks[v]),
                                 Get(entity_specialization_ticks[e]), this_run)
    THEN acc
    ELSE LET acc1 == [acc EXCEPT !.attempted = @ \cup {<<v, e>>}]
         IN  IF UpstreamDataMissing(e) THEN SpecializeSkip(acc1, <<v, e>>)
             ELSE LET r == PipelinesSpecialize(acc1.pipelines, BuildKey(v, e),
                               MeshLayout(render_mesh_instances[e]))
                      acc2 == [acc1 EXCEPT !.calls = @ \cup {<<v, e>>},
                                           !.pipelines = r.pipelines]
                  IN  IF r.ok
                      THEN StoreSpecialized(acc2, <<v, e>>, this_run, r.id)
                      ELSE SpecializeError(acc2, <<v, e>>)

RECURSIVE SpecializeVisible(_, _, _, _, _)
SpecializeVisible(acc, v, list, i, this_run) ==
    IF i > Len(list) THEN acc
    ELSE SpecializeVisible(SpecializeEntity(acc, v, list[i], this_run),
                           v, list, i + 1, this_run)

\* specialize_material_meshes: the view is skipped by the loop over views.
SpecializeSkipsView(v) ==
    \/ /\ transparent_render_phases[v] = None
       /\ opaque_render_phases[v] = None
       /\ alpha_mask_render_phases[v] = None
       /\ transmissive_render_phases[v] = None
    \/ view_key_cache[v] = None

RECURSIVE SpecializeViews(_, _, _, _)
SpecializeViews(acc, vis, i, this_run) ==
    IF i > Len(Views) THEN acc
    ELSE SpecializeViews(
             IF ~view_active[Views[i]] \/ SpecializeSkipsView(Views[i]) THEN acc
             ELSE SpecializeVisible(acc, Views[i], vis[Views[i]], 1, this_run),
             vis, i + 1, this_run)

\* The whole pass on the visible sets vis, run with tick this_run.
SpecializePass(vis, this_run) ==
    SpecializeViews([cache |-> specialized_material_pipeline_cache,
                     map |-> cache_map, pipelines |-> pipelines,
                     attempted |-> {}, calls |-> {}, errors |-> {},
                     stored |-> {}, replaced |-> {}, panicked |-> FALSE],
                    vis, 1, this_run)

\* The specialization pass scheduled without its after(prepare_assets)
\* constraints: it runs in the place of the preparation.
SpecializeMaterialMeshes_BeforePrepare ==
    /\ pc = "prepare_assets"
    /\ LET r == SpecializePass(visible, change_tick + 1)
       IN  /\ specialized_material_pipeline_cache' = r.cache
           /\ cache_map' = r.map
           /\ pipelines' = r.pipelines
           /\ slog' = [attempted |-> r.attempted, calls |-> r.calls,
                       errors |-> r.errors, stored |-> r.stored,
                       replaced |-> r.replaced,
                       retried |-> r.stored \cap (slog.attempted \ slog.calls),
                       panicked |-> r.panicked]
           /\ spec_ticks' = spec_ticks
    /\ change_tick' = change_tick + 1
    /\ pc' = "queue"
    /\ UNCHANGED <<device_vars, other_vars, scene_vars, main_vars, entities_needing_specialization, asset_vars,
                   instance_vars, tick_vars, phase_vars, frame, edits, qlog>>

\* specialize_material_meshes, in RenderSet::PrepareMeshes after the two
\* prepare_assets systems.

SpecializeMaterialMeshes ==
    /\ pc = "specialize"
    /\ LET r == SpecializePass(visible, change_tick + 1)
       IN  /\ specialized_material_pipeline_cache' = r.cache
           /\ cache_map' = r.map
           /\ pipelines' = r.pipelines
           /\ slog' = [attempted |-> r.attempted, calls |-> r.calls,
                       errors |-> r.errors, stored |-> r.stored,
                       replaced |-> r.replaced,
                       retried |-> r.stored \cap (slog.attempted \ slog.calls),
                       panicked |-> r.panicked]
           /\ spec_ticks' = [p \in Pairs |->
                 IF p \in r.stored
                 THEN Some([view |-> Get(view_specialization_ticks[p[1]]),
                            entity |-> Get(entity_specialization_ticks[p[2]])])
                 ELSE spec_ticks[p]]
    /\ change_tick' = change_tick + 1
    /\ pc' = "queue"
    /\ UNCHANGED <<device_vars, other_vars, scene_vars, main_vars, entities_needing_specialization, asset_vars,
                   instance_vars, tick_vars, phase_vars, frame, edits, qlog>>


\* --------------------------------------------------- RenderSet::QueueMeshes
\* MeshAllocator::mesh_slabs: the vertex slab of a mesh.
MeshSlab(k) == IF k = "k1" THEN "slab_a" ELSE "slab_b"

\* A validation that does not mark the entity as valid for the frame.
MarkValid_Forgets(phase, e) == phase

\* A validation that accepts the bin of the entity whatever its tick is.
ValidateCachedEntity_AnyTick(phase, e, tick) == phase.cached[e] # None

\* BinnedRenderPhase::validate_cached_entity(entity, tick): whether the
\* entity is cached with this tick (it is then marked valid).
ValidateCachedEntity(phase, e, tick) ==
    phase.cached[e] # None /\ Get(phase.cached[e]).change_tick = tick
MarkValid(phase, e) == [phase EXCEPT !.valid = @ \cup {e}]

\* An add that marks the entity valid and does not put it into a bin.
BinnedAdd_NoBin(phase, batch_set_key, bin_key, e, tick) ==
    [phase EXCEPT !.valid = @ \cup {e}]

\* BinnedRenderPhase::add(batch_set_key, bin_key, entity, _, change_tick)
BinnedAdd(phase, batch_set_key, bin_key, e, tick) ==
    [phase EXCEPT !.cached[e] = Some([batch_set_key |-> batch_set_key,
                                      bin_key |-> bin_key,
                                      change_tick |-> tick]),
                  !.valid = @ \cup {e}]

\* BinnedRenderPhase::sweep_old_entities: what is not valid is removed.
SweepOldEntities(phase) ==
    [phase EXCEPT !.cached = [e \in Entities |->
                                IF e \in phase.valid THEN @[e] ELSE None]]

\* The work on a view ending without the two sweeps.
QueueSweep_Missing(acc) == acc

\* queue_material_meshes: the two sweeps that end the work on a view.
QueueSweep(acc) ==
    [acc EXCEPT !.opaque = SweepOldEntities(@),
                !.alpha_mask = SweepOldEntities(@)]

\* queue_material_meshes: the match on render_phase_type.
QueueInsert(acc, v, e, tick, pipeline_id) ==
    LET material == Get(render_materials[render_material_instances[e]])
        mesh == render_mesh_instances[e]
        props == material.properties
        distance == RangefinderDistance(v, e) + props.depth_bias
        item == [entity |-> e, draw_function |-> props.draw_function_id,
                 pipeline |-> pipeline_id, distance |-> distance]
        batch_set_key == [pipeline |-> pipeline_id,
                          draw_function |-> props.draw_function_id,
                          material_bind_group_index |-> material.binding.group,
                          vertex_slab |-> MeshSlab(mesh)]
        bin_key == [asset_id |-> mesh]
        done == [acc EXCEPT !.added = @ \cup {<<props.render_phase_type, e>>}]
    IN  IF props.render_phase_type = "Transmissive"
        THEN [done EXCEPT !.transmissive = Append(@, item)]
        ELSE IF props.render_phase_type = "Opaque"
        THEN IF props.render_method = "Deferred" THEN acc
             ELSE [done EXCEPT !.opaque =
                       BinnedAdd(@, batch_set_key, bin_key, e, tick)]
        ELSE IF props.render_phase_type = "AlphaMask"
        THEN [done EXCEPT !.alpha_mask =
                  BinnedAdd(@, batch_set_key, bin_key, e, tick)]
        ELSE [done EXCEPT !.transparent = Append(@, item)]

\* queue_material_meshes: the body of the loop over visible entities.
QueueEntity(acc, v, e) ==
    LET entry == specialized_material_pipeline_cache[<<v, e>>]
    IN  IF entry = None THEN acc
        ELSE IF ValidateCachedEntity(acc.opaque, e, Get(entry).tick)
        THEN [acc EXCEPT !.opaque = MarkValid(@, e),
                         !.validated = @ \cup {<<"Opaque", e>>}]
        ELSE IF ValidateCachedEntity(acc.alpha_mask, e, Get(entry).tick)
        THEN [acc EXCEPT !.alpha_mask = MarkValid(@, e),
                         !.validated = @ \cup {<<"AlphaMask", e>>}]
        ELSE IF render_material_instances[e] = NONE THEN acc
        ELSE IF render_mesh_instances[e] = NONE THEN acc
        ELSE IF render_materials[render_material_instances[e]] = None THEN acc
        ELSE QueueInsert(acc, v, e, Get(entry).tick, Get(entry).pipeline)

RECURSIVE QueueVisible(_, _, _, _)
QueueVisible(acc, v, list, i) ==
    IF i > Len(list) THEN acc
    ELSE QueueVisible(QueueEntity(acc, v, list[i]), v, list, i + 1)

\* The loop over views working on the first view only.
QueueSkipsView_AfterFirstView(v) ==
    \/ v # Views[1]
    \/ ~view_active[v]
    \/ opaque_render_phases[v] = None
    \/ alpha_mask_render_phases[v] = None
    \/ transmissive_render_phases[v] = None
    \/ transparent_render_phases[v] = None

\* queue_material_meshes: the view is skipped unless it has all four phases.
QueueSkipsView(v) ==
    \/ ~view_active[v]
    \/ opaque_render_phases[v] = None
    \/ alpha_mask_render_phases[v] = None
    \/ transmissive_render_phases[v] = None
    \/ transparent_render_phases[v] = None

\* The phases of view v after the pass, and what the pass did on them.
QueueView(v) ==
    LET acc0 == [opaque |-> Get(opaque_render_phases[v]),
                 alpha_mask |-> Get(alpha_mask_render_phases[v]),
                 transmissive |-> Get(transmissive_render_phases[v]),
                 transparent |-> Get(transparent_render_phases[v]),
                 validated |-> {}, added |-> {}]
    IN  QueueSweep(QueueVisible(acc0, v, visible[v], 1))

\* The entities of a binned phase (None: the view has no such phase).
Binned(phase) ==
    IF phase = None THEN {}
    ELSE {e \in Entities : Get(phase).cached[e] # None}

\* What a pass removed from the binned phases, validated and added.
SweptFrom(before, after, name) ==
    {t \in ViewSet \X {name} \X Entities :
        t[3] \in Binned(before[t[1]]) /\ t[3] \notin Binned(after[t[1]])}
QueueLogOf(field) ==
    UNION {{<<v, x[1], x[2]>> : x \in QueueView(v)[field]} :
              v \in {w \in ViewSet : ~QueueSkipsView(w)}}

\* A binning pass that takes the entry of each item it adds out of the cache.
QueueMaterialMeshes_TakesEntries ==
    /\ pc = "queue"
    /\ opaque_render_phases' = [v \in ViewSet |->
          IF QueueSkipsView(v) THEN opaque_render_phases[v]
          ELSE Some(QueueView(v).opaque)]
    /\ alpha_mask_render_phases' = [v \in ViewSet |->
          IF QueueSkipsView(v) THEN alpha_mask_render_phases[v]
          ELSE Some(QueueView(v).alpha_mask)]
    /\ transmissive_render_phases' = [v \in ViewSet |->
          IF QueueSkipsView(v) THEN transmissive_render_phases[v]
          ELSE Some(QueueView(v).transmissive)]
    /\ transparent_render_phases' = [v \in ViewSet |->
          IF QueueSkipsView(v) THEN transparent_render_phases[v]
          ELSE Some(QueueView(v).transparent)]
    /\ qlog' = [swept |-> SweptFrom(opaque_render_phases,
                                    opaque_render_phases', "Opaque")
                            \cup SweptFrom(alpha_mask_render_phases,
                                           alpha_mask_render_phases',
                                           "AlphaMask"),
                validated |-> QueueLogOf("validated"),
                added |-> QueueLogOf("added")]
    /\ specialized_material_pipeline_cache' = [p \in Pairs |->
          IF \E t \in QueueLogOf("added") : t[1] = p[1] /\ t[3] = p[2]
          THEN None
          ELSE specialized_material_pipeline_cache[p]]
    /\ frame' = frame + 1
    /\ pc' = "prepare_bind_groups"
    /\ UNCHANGED <<device_vars, other_vars, scene_vars, main_vars, entities_needing_specialization, asset_vars,
                   instance_vars, tick_vars, pipelines, cache_map, change_tick,
                   edits,
                   slog, spec_ticks>>

\* queue_material_meshes
QueueMaterialMeshes ==
    /\ pc = "queue"
    /\ opaque_render_phases' = [v \in ViewSet |->
          IF QueueSkipsView(v) THEN opaque_render_phases[v]
          ELSE Some(QueueView(v).opaque)]
    /\ alpha_mask_render_phases' = [v \in ViewSet |->
          IF QueueSkipsView(v) THEN alpha_mask_render_phases[v]
          ELSE Some(QueueView(v).alpha_mask)]
    /\ transmissive_render_phases' = [v \in ViewSet |->
          IF QueueSkipsView(v) THEN transmissive_render_phases[v]
          ELSE Some(QueueView(v).transmissive)]
    /\ transparent_render_phases' = [v \in ViewSet |->
          IF QueueSkipsView(v) THEN transparent_render_phases[v]
          ELSE Some(QueueView(v).transparent)]
    /\ qlog' = [swept |-> SweptFrom(opaque_render_phases,
                                    opaque_render_phases', "Opaque")
                            \cup SweptFrom(alpha_mask_render_phases,
                                           alpha_mask_render_phases',
                                           "AlphaMask"),
                validated |-> QueueLogOf("validated"),
                added |-> QueueLogOf("added")]
    /\ frame' = frame + 1
    /\ pc' = "prepare_bind_groups"
    /\ UNCHANGED <<device_vars, other_vars, scene_vars, main_vars, entities_needing_specialization, asset_vars,
                   instance_vars, tick_vars, cache_vars, change_tick, edits,
                   slog, spec_ticks>>

\* ------------------------------------------- RenderSet::PrepareBindGroups
\* A pass that runs before the init calls of the frame: it sees none of the
\* contents given in the frame and creates no bind group for them.
AllocatorPrepareBindGroups_BeforeInit(a) == bind_groups

\* MaterialBindGroupAllocator::prepare_bind_groups: every group that was
\* given contents has its bind group afterwards.
AllocatorPrepareBindGroups(a) ==
    {g \in GroupIds : a[g].state = "initialized"}

\* prepare_material_bind_groups, in RenderSet::PrepareBindGroups after
\* prepare_assets: the last system of the frame.
PrepareMaterialBindGroups ==
    /\ pc = "prepare_bind_groups"
    /\ bind_groups' = AllocatorPrepareBindGroups(allocator)
    /\ pc' = "update"
    /\ UNCHANGED <<device_vars, other_vars, scene_vars, main_vars, entities_needing_specialization,
                   render_meshes, render_materials, render_material_bindings,
                   allocator, prepare_next_update, instance_vars, tick_vars,
                   cache_vars, phase_vars, change_tick, frame, edits, log_vars>>

\* ------------------------------------------------------------ specification
Edit ==
    \/ \E e \in Entities, m \in Materials \cup {NONE} : SetMaterial(e, m)
    \/ \E e \in Entities, k \in Meshes : SetMesh(e, k)
    \/ \E e \in Entities : Despawn(e)
    \/ \E v \in ViewSet, e \in Entities : SetVisible(v, e)
    \/ \E v \in ViewSet : SetViewActive(v)
    \/ \E v \in ViewSet, key \in ViewKeys : ChangeViewKey(v, key)
    \/ \E m \in Materials : ModifyMaterialAsset(m)
    \/ \E m \in Materials : RemoveMaterialAsset(m)
    \/ \E k \in Meshes : ModifyMeshAsset(k)
    \/ \E k \in Meshes : RemoveMeshAsset(k)

Next ==
    \/ Edit
    \/ CheckEntitiesNeedingSpecialization
    \/ ExtractCameraPhases
    \/ ExtractMeshMaterials
    \/ ExtractEntitiesNeedsSpecialization
    \/ PrepareAssets
    \/ CheckViewsNeedSpecialization
    \/ SpecializeMaterialMeshes
    \/ QueueMaterialMeshes
    \/ PrepareMaterialBindGroups

Spec == Init /\ [][Next]_vars

\* AlphaMode (Mask stands for Mask(_) with any threshold) and
\* OpaqueRendererMethod.
AlphaModes ==
    {"Opaque", "Mask", "Blend", "Premultiplied", "AlphaToCoverage", "Add",
     "Multiply"}
OpaqueRendererMethods == {"Forward", "Deferred", "Auto"}

\* The scene in which the second material is any material: every alpha
\* mode with and without the transmission texture, and every alpha mode with
\* every render method (the default method matters for Auto only, so it is
\* Deferred with Auto only). Entity e2 uses it.
PhaseInit ==
    /\ InitWorld
    /\ mesh_material["e2"] = "m2"
    /\ material_assets \in
          {f \in [Materials ->
                    [alpha_mode : AlphaModes,
                     opaque_render_method : OpaqueRendererMethods,
                     depth_bias : {1},
                     reads_view_transmission_texture : BOOLEAN,
                     data : {"d2"}]
                    \cup {MaterialAsset("m1")}] :
              /\ f["m1"] = MaterialAsset("m1")
              /\ f["m2"] # MaterialAsset("m1")
              /\ f["m2"].reads_view_transmission_texture
                    => f["m2"].opaque_render_method = "Forward"}
    /\ default_opaque_render_method \in
          IF material_assets["m2"].opaque_render_method = "Auto"
          THEN {"Forward", "Deferred"} ELSE {"Forward"}
    /\ render_lightmaps = [e \in Entities |-> NoLightmap]
    /\ render_visibility_ranges = {}
    /\ render_mesh_instance_flags = [e \in Entities |-> {}]
    /\ declined_layouts = {"layout_b"}

PhaseSpec == PhaseInit /\ [][Next]_vars

\* The scene in which the second material is the blended one, a twin of the
\* first (same alpha mode, flags and extra data) or the first with other
\* extra data; entity e2 uses it and has no lightmap, a lightmap, a lightmap
\* with bicubic sampling, or a crossfading visibility range; the material
\* type declines layout_b or no layout.
KeyInit ==
    /\ InitWorld
    /\ mesh_material["e2"] = "m2"
    /\ material_assets \in
          {f \in [Materials ->
                    {MaterialAsset("m1"), MaterialAsset("m2"),
                     [MaterialAsset("m1") EXCEPT !.data = "d2"]}] :
              f["m1"] = MaterialAsset("m1")}
    /\ default_opaque_render_method = DefaultOpaqueRendererMethod
    /\ render_lightmaps \in
          {f \in [Entities -> [present : BOOLEAN, bicubic_sampling : BOOLEAN]] :
              /\ f["e1"] = NoLightmap
              /\ f["e2"].bicubic_sampling => f["e2"].present}
    /\ render_mesh_instance_flags = [e \in Entities |-> {}]
    /\ render_visibility_ranges \in
          IF render_lightmaps["e2"].present THEN {{}} ELSE {{}, {"e2"}}
    /\ declined_layouts \in {{}, {"layout_b"}}

KeySpec == KeyInit /\ [][Next]_vars

\* ------------------------------------------ a second material type N
\* MaterialPlugin<N> beside MaterialPlugin<M>: the same systems with their
\* own EntitySpecializationTicks<N> and SpecializedMaterialPipelineCache<N>,
\* on the same views, visible entities, view ticks and phases. Entity e2
\* has a MeshMaterial3d<N> (opaque, forward, always prepared).
OtherMaterialEntities == {"e2"}
OtherPipelineId == 0
OtherBindGroupIndex == 0

\* specialize_material_meshes::<N>: the body of the loop over visible
\* entities (an entity without a material of type N is left by the let-else).
OtherSpecializeEntity(cache, ticks, v, e, this_run) ==
    IF ~NeedsSpecialization(cache[<<v, e>>],
                            Get(view_specialization_ticks[v]),
                            Get(ticks[e]), this_run)
    THEN cache
    ELSE IF e \notin OtherMaterialEntities
            \/ render_mesh_instances[e] = NONE
            \/ render_mesh_instances[e] \notin render_meshes
    THEN cache
    ELSE [cache EXCEPT ![<<v, e>>] = Some([tick |-> this_run,
                                           pipeline |-> OtherPipelineId])]

RECURSIVE OtherSpecializeVisible(_, _, _, _, _, _)
OtherSpecializeVisible(cache, ticks, v, list, i, this_run) ==
    IF i > Len(list) THEN cache
    ELSE OtherSpecializeVisible(
             OtherSpecializeEntity(cache, ticks, v, list[i], this_run),
             ticks, v, list, i + 1, this_run)

RECURSIVE OtherSpecializeViews(_, _, _, _)
OtherSpecializeViews(cache, ticks, i, this_run) ==
    IF i > Len(Views) THEN cache
    ELSE OtherSpecializeViews(
             IF ~view_active[Views[i]] \/ SpecializeSkipsView(Views[i])
             THEN cache
             ELSE OtherSpecializeVisible(cache, ticks, Views[i],
                                         visible[Views[i]], 1, this_run),
             ticks, i + 1, this_run)

\* queue_material_meshes::<N>: the body of the loop over visible entities.
OtherQueueEntity(acc, cache, v, e) ==
    LET entry == cache[<<v, e>>]
        mesh == render_mesh_instances[e]
        draw == <<"DrawMaterial", "Opaque">>
    IN  IF entry = None THEN acc
        ELSE IF ValidateCachedEntity(acc.opaque, e, Get(entry).tick)
        THEN [acc EXCEPT !.opaque = MarkValid(@, e)]
        ELSE IF ValidateCachedEntity(acc.alpha_mask, e, Get(entry).tick)
        THEN [acc EXCEPT !.alpha_mask = MarkValid(@, e)]
        ELSE IF e \notin OtherMaterialEntities THEN acc
        ELSE IF mesh = NONE THEN acc
        ELSE [acc EXCEPT !.opaque =
                 BinnedAdd(@, [pipeline |-> Get(entry).pipeline,
                               draw_function |-> draw,
                               material_bind_group_index |-> OtherBindGroupIndex,
                               vertex_slab |-> MeshSlab(mesh)],
                           [asset_id |-> mesh], e, Get(entry).tick)]

RECURSIVE OtherQueueVisible(_, _, _, _, _)
OtherQueueVisible(acc, cache, v, list, i) ==
    IF i > Len(list) THEN acc
    ELSE OtherQueueVisible(OtherQueueEntity(acc, cache, v, list[i]),
                           cache, v, list, i + 1)

\* The binned phases of view v after queue_material_meshes::<N>, the two
\* sweeps included.
OtherQueueView(cache, v) ==
    QueueSweep(OtherQueueVisible(
        [opaque |-> Get(opaque_render_phases[v]),
         alpha_mask |-> Get(alpha_mask_render_phases[v])],
        cache, v, visible[v], 1))

\* The systems of type N in one frame: extract_entities_needs_specialization,
\* specialize_material_meshes and queue_material_meshes. Nothing orders
\* queue_material_meshes::<N> against queue_material_meshes::<M>: it runs
\* before it or after it.
OtherMaterialPasses ==
    /\ \/ pc = "queue" /\ other_passes = frame
       \/ pc = "prepare_bind_groups" /\ other_passes + 1 = frame
    /\ LET ticks == [e \in Entities |->
                        IF e \in entities_needing_specialization
                        THEN Some(change_tick + 1)
                        ELSE other_entity_specialization_ticks[e]]
           cache == OtherSpecializeViews(
                        other_specialized_material_pipeline_cache, ticks, 1,
                        change_tick + 2)
       IN  /\ other_entity_specialization_ticks' = ticks
           /\ other_specialized_material_pipeline_cache' = cache
           /\ opaque_render_phases' = [v \in ViewSet |->
                 IF QueueSkipsView(v) THEN opaque_render_phases[v]
                 ELSE Some(OtherQueueView(cache, v).opaque)]
           /\ alpha_mask_render_phases' = [v \in ViewSet |->
                 IF QueueSkipsView(v) THEN alpha_mask_render_phases[v]
                 ELSE Some(OtherQueueView(cache, v).alpha_mask)]
    /\ change_tick' = change_tick + 2
    /\ other_passes' = other_passes + 1
    /\ UNCHANGED <<device_vars, scene_vars, main_vars,
                   entities_needing_specialization,
                   asset_vars, instance_vars, tick_vars, cache_vars,
                   transmissive_render_phases, transparent_render_phases,
                   pc, frame, edits, log_vars>>

\* A scene in which e1 has material m1 of type M and e2 has a material of
\* type N only; the views, their keys and the visible sets are edited.
TypesInit ==
    /\ InitResources
    /\ mesh_material = [e \in Entities |-> IF e = "e1" THEN "m1" ELSE NONE]
    /\ mat_changed = {"e1"}
    /\ material_assets = [m \in Materials |-> MaterialAsset(m)]
    /\ default_opaque_render_method = DefaultOpaqueRendererMethod
    /\ render_lightmaps = [e \in Entities |-> NoLightmap]
    /\ render_visibility_ranges = {}
    /\ render_mesh_instance_flags = [e \in Entities |-> {}]
    /\ declined_layouts = {"layout_b"}

TypesNext ==
    \/ \E v \in ViewSet, e \in Entities : SetVisible(v, e)
    \/ \E v \in ViewSet : SetViewActive(v)
    \/ \E v \in ViewSet, key \in ViewKeys : ChangeViewKey(v, key)
    \/ CheckEntitiesNeedingSpecialization
    \/ ExtractCameraPhases
    \/ ExtractMeshMaterials
    \/ ExtractEntitiesNeedsSpecialization
    \/ PrepareAssets
    \/ CheckViewsNeedSpecialization
    \/ SpecializeMaterialMeshes
    \/ QueueMaterialMeshes
    \/ OtherMaterialPasses
    \/ (other_passes = frame /\ PrepareMaterialBindGroups)

TypesSpec == TypesInit /\ [][TypesNext]_vars

\* ------------------------------------------- entities spawned while running
\* An entity with Mesh3d and MeshMaterial3d<M> is spawned, either before
\* check_entities_needing_specialization has run in PostUpdate or after it
\* (nothing orders the system against the one that spawns, nor against the
\* visibility systems of the same schedule).  The views see the entity in
\* the frame it is spawned in; the Changed filters match it at the next run
\* of check_entities_needing_specialization.
Spawn(e, m) ==
    /\ pc \in {"update", "extract_phases"}
    /\ edits < MaxEdits
    /\ frame < MaxFrames
    /\ mesh3d[e] = NONE
    /\ mesh3d' = [mesh3d EXCEPT ![e] = "k1"]
    /\ mesh_material' = [mesh_material EXCEPT ![e] = m]
    /\ visible' = [v \in ViewSet |-> Append(visible[v], e)]
    /\ changed' = changed \cup {e}
    /\ mat_changed' = mat_changed \cup {e}
    /\ edits' = edits + 1
    /\ UNCHANGED <<device_vars, other_vars, scene_vars, view_active, view_key, removed,
                   asset_events, entities_needing_specialization, asset_vars,
                   instance_vars, tick_vars, cache_vars, phase_vars,
                   change_tick, pc, frame, log_vars>>

\* The scene starts with e1 alone; e2 is spawned later.
SpawnInit ==
    /\ InitRenderWorld
    /\ mesh3d = [e \in Entities |-> IF e = "e1" THEN "k1" ELSE NONE]
    /\ visible = [v \in ViewSet |-> <<"e1">>]
    /\ changed = {"e1"}
    /\ mesh_material = [e \in Entities |-> IF e = "e1" THEN "m1" ELSE NONE]
    /\ mat_changed = {"e1"}
    /\ material_assets = [m \in Materials |-> MaterialAsset(m)]
    /\ default_opaque_render_method = DefaultOpaqueRendererMethod
    /\ render_lightmaps = [e \in Entities |-> NoLightmap]
    /\ render_visibility_ranges = {}
    /\ render_mesh_instance_flags = [e \in Entities |-> {}]
    /\ declined_layouts = {"layout_b"}

SpawnNext ==
    \/ \E e \in Entities, m \in Materials : Spawn(e, m)
    \/ \E v \in ViewSet, e \in Entities : SetVisible(v, e)
    \/ \E v \in ViewSet, key \in ViewKeys : ChangeViewKey(v, key)
    \/ CheckEntitiesNeedingSpecialization
    \/ ExtractCameraPhases
    \/ ExtractMeshMaterials
    \/ ExtractEntitiesNeedsSpecialization
    \/ PrepareAssets
    \/ CheckViewsNeedSpecialization
    \/ SpecializeMaterialMeshes
    \/ QueueMaterialMeshes
    \/ PrepareMaterialBindGroups

SpawnSpec == SpawnInit /\ [][SpawnNext]_vars

\* ------------------------------------------------- pipeline compilation
\* PipelineCache compiles a queued pipeline asynchronously: the id handed
\* out by specialize is pending until the compilation finishes, which can
\* happen at any point of any frame, or never.
PipelineCompiled(id) ==
    /\ id \in 1..Len(pipelines)
    /\ id \notin ready_pipelines
    /\ ready_pipelines' = ready_pipelines \cup {id}
    /\ UNCHANGED <<render_pass, rendered, other_vars, scene_vars, main_vars,
                   entities_needing_specialization, asset_vars, instance_vars,
                   tick_vars, cache_vars, phase_vars, change_tick, pc, frame,
                   edits, log_vars>>

\* The frames of the scene with pipelines that compile at any time.
CompileNext ==
    \/ \E e \in Entities, m \in Materials \cup {NONE} : SetMaterial(e, m)
    \/ \E v \in ViewSet, key \in ViewKeys : ChangeViewKey(v, key)
    \/ \E id \in 1..Len(pipelines) : PipelineCompiled(id)
    \/ CheckEntitiesNeedingSpecialization
    \/ ExtractCameraPhases
    \/ ExtractMeshMaterials
    \/ ExtractEntitiesNeedsSpecialization
    \/ PrepareAssets
    \/ CheckViewsNeedSpecialization
    \/ SpecializeMaterialMeshes
    \/ QueueMaterialMeshes
    \/ PrepareMaterialBindGroups

CompileSpec == Init /\ [][CompileNext]_vars

\* --------------------------------------- views with a motion vector prepass
\* The keys of a view that runs the motion vector prepass or not.
PrepassViewKeys == {{}, {"MOTION_VECTOR_PREPASS"}}

\* The scene whose mesh instances carry any RenderMeshInstanceFlags among
\* automatic batching and the skin and morph targets of the previous frame
\* (the two entities differ in nothing else but the material).
PrepassInit ==
    /\ InitWorld
    /\ material_assets = [m \in Materials |-> MaterialAsset(m)]
    /\ default_opaque_render_method = DefaultOpaqueRendererMethod
    /\ render_lightmaps = [e \in Entities |-> NoLightmap]
    /\ render_visibility_ranges = {}
    /\ render_mesh_instance_flags \in
          [Entities -> SUBSET {"AUTOMATIC_BATCHING", "HAS_PREVIOUS_SKIN",
                               "HAS_PREVIOUS_MORPH"}]
    /\ declined_layouts = {"layout_b"}

PrepassNext ==
    \/ \E v \in ViewSet, key \in PrepassViewKeys : ChangeViewKey(v, key)
    \/ \E v \in ViewSet, e \in Entities : SetVisible(v, e)
    \/ CheckEntitiesNeedingSpecialization
    \/ ExtractCameraPhases
    \/ ExtractMeshMaterials
    \/ ExtractEntitiesNeedsSpecialization
    \/ PrepareAssets
    \/ CheckViewsNeedSpecialization
    \/ SpecializeMaterialMeshes
    \/ QueueMaterialMeshes
    \/ PrepareMaterialBindGroups

PrepassSpec == PrepassInit /\ [][PrepassNext]_vars

\* ------------------------------------------------------- RenderSet::Render
\* DrawMaterial<M>: the index of SetMaterialBindGroup<M, 2>.
MaterialBindGroupIndex == 2

\* A command that answers Success, setting nothing, for an item whose
\* entity has no material instance.
SetMaterialBindGroupRender_MissingInstanceSucceeds(e) ==
    LET skip == [result |-> "Skip", set |-> None]
        m == render_material_instances[e]
    IN  IF m = NONE THEN [result |-> "Success", set |-> None]
        ELSE IF render_materials[m] = None THEN skip
        ELSE LET group == Get(render_materials[m]).binding.group
             IN  IF ~AllocatorHas(allocator, group) THEN skip
                 ELSE IF group \notin bind_groups THEN skip
                 ELSE [result |-> "Success",
                       set |-> Some([index |-> MaterialBindGroupIndex,
                                     bind_group |-> group])]

\* SetMaterialBindGroup::render(item, ..) for an item of entity e: the
\* result, and the bind group set on the pass (None: nothing is set).
SetMaterialBindGroupRender(e) ==
    LET skip == [result |-> "Skip", set |-> None]
        m == render_material_instances[e]
    IN  IF m = NONE THEN skip
        ELSE IF render_materials[m] = None THEN skip
        ELSE LET group == Get(render_materials[m]).binding.group
             IN  IF ~AllocatorHas(allocator, group) THEN skip
                 ELSE IF group \notin bind_groups THEN skip
                 ELSE [result |-> "Success",
                       set |-> Some([index |-> MaterialBindGroupIndex,
                                     bind_group |-> group])]

\* RenderSet::Render, after the bind groups of the frame are prepared and
\* before the next extraction: the phases are drawn, the command runs for
\* every item of every phase.
DrawPhaseItems ==
    /\ pc = "update"
    /\ frame > 0
    /\ rendered < frame
    /\ LET HasItem(phase, e) ==
              /\ phase # None
              /\ \E i \in 1..Len(Get(phase)) : Get(phase)[i].entity = e
           IsDrawn(v, e) ==
              \/ e \in Binned(opaque_render_phases[v])
              \/ e \in Binned(alpha_mask_render_phases[v])
              \/ HasItem(transmissive_render_phases[v], e)
              \/ HasItem(transparent_render_phases[v], e)
       IN  render_pass' = [p \in Pairs |->
              IF IsDrawn(p[1], p[2])
              THEN Some(SetMaterialBindGroupRender(p[2])) ELSE None]
    /\ rendered' = frame
    /\ UNCHANGED <<ready_pipelines, other_vars, scene_vars, main_vars,
                   entities_needing_specialization, asset_vars, instance_vars,
                   tick_vars, cache_vars, phase_vars, change_tick, pc, frame,
                   edits, log_vars>>

\* The render world the command is given: any material instances, any
\* prepared materials with a binding in any group, any state of the groups
\* of the allocator, any set of created bind groups, and any entities in the
\* Opaque phase of v1; nothing else runs.
RenderInit ==
    /\ material_assets = [m \in Materials |-> MaterialAsset(m)]
    /\ default_opaque_render_method = DefaultOpaqueRendererMethod
    /\ render_lightmaps = [e \in Entities |-> NoLightmap]
    /\ render_visibility_ranges = {}
    /\ render_mesh_instance_flags = [e \in Entities |-> {}]
    /\ declined_layouts = {}
    /\ mesh3d = [e \in Entities |-> "k1"]
    /\ mesh_material = [e \in Entities |-> "m1"]
    /\ visible = [v \in ViewSet |-> <<"e1", "e2">>]
    /\ view_active = [v \in ViewSet |-> v = "v1"]
    /\ view_key = [v \in ViewSet |-> {}]
    /\ changed = {}
    /\ mat_changed = {}
    /\ removed = {}
    /\ asset_events = NoEvents
    /\ entities_needing_specialization = {}
    /\ render_material_instances \in [Entities -> Materials \cup {NONE}]
    /\ render_mesh_material_ids = [e \in Entities |->
          IF render_material_instances[e] = NONE THEN None
          ELSE Some(UntypedAssetId(render_material_instances[e]))]
    /\ render_mesh_instances = [e \in Entities |-> "k1"]
    /\ render_meshes = Meshes
    /\ render_materials \in
          [Materials -> {None} \cup
              {Some([binding |-> [group |-> g, slot |-> 0],
                     properties |-> MaterialPropertiesOf("m1")]) :
                 g \in GroupIds}]
    /\ render_material_bindings = [m \in Materials |->
          IF render_materials[m] = None THEN None
          ELSE Some(Get(render_materials[m]).binding)]
    /\ allocator \in
          [GroupIds -> {FreeGroup, [state |-> "unprepared", data |-> NONE],
                        [state |-> "initialized", data |-> "d1"]}]
    /\ prepare_next_update = {}
    /\ bind_groups \in SUBSET GroupIds
    /\ view_key_cache = [v \in ViewSet |-> None]
    /\ view_specialization_ticks = [v \in ViewSet |-> None]
    /\ entity_specialization_ticks = [e \in Entities |-> None]
    /\ specialized_material_pipeline_cache = [p \in Pairs |-> None]
    /\ cache_map = {}
    /\ pipelines = <<>>
    /\ \E items \in SUBSET Entities :
          opaque_render_phases = [v \in ViewSet |->
             IF v # "v1" THEN None
             ELSE Some([cached |-> [e \in Entities |->
                                      IF e \in items
                                      THEN Some([change_tick |-> 1])
                                      ELSE None],
                        valid |-> items])]
    /\ alpha_mask_render_phases = [v \in ViewSet |->
          IF v = "v1" THEN Some(EmptyBinnedPhase) ELSE None]
    /\ transmissive_render_phases = [v \in ViewSet |->
          IF v = "v1" THEN Some(<<>>) ELSE None]
    /\ transparent_render_phases = [v \in ViewSet |->
          IF v = "v1" THEN Some(<<>>) ELSE None]
    /\ change_tick = 1
    /\ pc = "update"
    /\ frame = MaxFrames
    /\ edits = MaxEdits
    /\ slog = EmptySlog
    /\ qlog = EmptyQlog
    /\ spec_ticks = [p \in Pairs |-> None]
    /\ other_entity_specialization_ticks = [e \in Entities |-> None]
    /\ other_specialized_material_pipeline_cache = [p \in Pairs |-> None]
    /\ other_passes = 0
    /\ ready_pipelines = {}
    /\ render_pass = [p \in Pairs |-> None]
    /\ rendered = 0

RenderNext == DrawPhaseItems

RenderSpec == RenderInit /\ [][RenderNext]_vars

\* ------------------------------------------------------------- properties
\* The steps of the two passes, and of the tick extraction.
SpecializeStep == pc = "specialize" /\ pc' = "queue"
QueueStep == pc = "queue" /\ pc' = "prepare_bind_groups"
ExtractTicksStep == pc = "extract_ticks" /\ pc' = "prepare_assets"

\* The pairs the specialization pass walks over: the visible entities of the
\* views it does not skip.
SpecializedView(v) == view_active[v] /\ ~SpecializeSkipsView(v)
VisiblePairs ==
    {p \in Pairs : SpecializedView(p[1]) /\ p[2] \in Range(visible[p[1]])}

\* No entry, or an entry older than the view's or the entity's tick.
PairIsDirty(p) ==
    \/ specialized_material_pipeline_cache[p] = None
    \/ Get(view_specialization_ticks[p[1]])
          > Get(specialized_material_pipeline_cache[p]).tick
    \/ Get(entity_specialization_ticks[p[2]])
          > Get(specialized_material_pipeline_cache[p]).tick

\* One of the five upstream data of the entity is absent.
DataIsMissing(e) ==
    LET m == render_material_instances[e]
        k == render_mesh_instances[e]
    IN  \/ m = NONE
        \/ k = NONE
        \/ k \notin render_meshes
        \/ render_materials[m] = None
        \/ allocator[Get(render_materials[m]).binding.group].state
              # "initialized"

\* C1: a visible pair of a processed view is re-specialized in a pass if and
\* only if it has no cache entry or its stored tick is older than the view's
\* or the entity's tick; every other pair keeps its entry and causes no call
\* to the pipeline cache.
C1_RespecializedIffDirty ==
    [][SpecializeStep =>
          /\ slog'.attempted = {p \in VisiblePairs : PairIsDirty(p)}
          /\ \A p \in Pairs :
                p \notin {q \in VisiblePairs : PairIsDirty(q)} =>
                   /\ specialized_material_pipeline_cache'[p]
                         = specialized_material_pipeline_cache[p]
                   /\ p \notin slog'.calls]_vars

\* A pass that re-specialized one pair of a view and skipped another one of
\* the same view that had an up-to-date entry.
C1_Witness ==
    /\ pc = "queue"
    /\ \E v \in ViewSet, e1 \in Entities, e2 \in Entities :
          /\ e1 # e2
          /\ {e1, e2} \subseteq Range(visible[v])
          /\ <<v, e1>> \in slog.replaced
          /\ <<v, e2>> \notin slog.attempted
          /\ specialized_material_pipeline_cache[<<v, e2>>] # None

\* C2: a pass leaves the entry of a pair whose view tick and entity tick are
\* still the ones it was specialized under as it is, and makes no call to the
\* pipeline cache for the pair.
C2_Idempotent ==
    [][SpecializeStep =>
          \A p \in Pairs :
             (/\ specialized_material_pipeline_cache[p] # None
              /\ spec_ticks[p]
                    = Some([view |-> Get(view_specialization_ticks[p[1]]),
                            entity |-> Get(entity_specialization_ticks[p[2]])]))
             => /\ specialized_material_pipeline_cache'[p]
                      = specialized_material_pipeline_cache[p]
                /\ p \notin slog'.calls]_vars

\* Two frames after its specialization a visible pair still has the entry of
\* that specialization, and the last pass did nothing on it.
C2_Witness ==
    /\ pc = "queue"
    /\ \E p \in VisiblePairs :
          /\ specialized_material_pipeline_cache[p] # None
          /\ Get(specialized_material_pipeline_cache[p]).tick + 4 < change_tick
          /\ p \notin slog.attempted

\* The views whose tick was set in this frame (by the run that precedes the
\* specialization pass), and the entities reported as changed in this frame.
ViewChangedThisFrame(v) == view_specialization_ticks[v] = Some(change_tick)
EntityChangedThisFrame(e) == e \in entities_needing_specialization
UpToDateBeforeFrame(p) ==
    /\ specialized_material_pipeline_cache[p] # None
    /\ ~ViewChangedThisFrame(p[1])
    /\ ~EntityChangedThisFrame(p[2])
    /\ ~PairIsDirty(p)

\* C3: in the frame in which the key of a view V1 changed, the pass
\* re-specializes every cached pair (V1, e) of a visible entity e, and leaves
\* alone every up-to-date entry of a view and an entity that did not change.
C3_ViewDirtyPropagation ==
    [][SpecializeStep =>
          \A v1 \in ViewSet :
             (ViewChangedThisFrame(v1) /\ SpecializedView(v1)) =>
                /\ \A e \in Range(visible[v1]) :
                      specialized_material_pipeline_cache[<<v1, e>>] # None
                         => <<v1, e>> \in slog'.attempted
                /\ \A p \in Pairs :
                      (p[1] # v1 /\ UpToDateBeforeFrame(p)) =>
                         /\ p \notin slog'.attempted
                         /\ specialized_material_pipeline_cache'[p]
                               = specialized_material_pipeline_cache[p]]_vars

\* Only the key of v1 changed: both its entries were replaced, those of v2
\* are older and were not looked at.
C3_Witness ==
    /\ pc = "queue"
    /\ view_key["v1"] # {} /\ view_key["v2"] = {}
    /\ entities_needing_specialization = {}
    /\ slog.replaced = {<<"v1", "e1">>, <<"v1", "e2">>}
    /\ slog.attempted = slog.replaced
    /\ \A e \in Entities :
          /\ e \in Range(visible["v2"])
          /\ specialized_material_pipeline_cache[<<"v2", e>>] # None

\* C4: extraction sets the tick of exactly the entities reported as changed
\* to the tick of its run; the next pass re-specializes every pair (v, E) of
\* a reported entity E that a processed view sees, and leaves alone every
\* up-to-date entry of an entity and a view that did not change.
C4_EntityDirtyPropagation ==
    [][/\ ExtractTicksStep =>
             \A e \in Entities :
                entity_specialization_ticks'[e] =
                   IF e \in entities_needing_specialization
                   THEN Some(change_tick')
                   ELSE entity_specialization_ticks[e]
       /\ SpecializeStep =>
             /\ \A p \in VisiblePairs :
                   EntityChangedThisFrame(p[2]) => p \in slog'.attempted
             /\ \A p \in Pairs :
                   UpToDateBeforeFrame(p) =>
                      /\ p \notin slog'.attempted
                      /\ specialized_material_pipeline_cache'[p]
                            = specialized_material_pipeline_cache[p]]_vars

\* Only e1 changed (after the first frame): its entries in both views were
\* replaced, those of e2 were not looked at.
C4_Witness ==
    /\ pc = "queue"
    /\ entities_needing_specialization = {"e1"}
    /\ slog.replaced = {<<"v1", "e1">>, <<"v2", "e1">>}
    /\ slog.attempted = slog.replaced
    /\ \A v \in ViewSet :
          /\ "e2" \in Range(visible[v])
          /\ specialized_material_pipeline_cache[<<v, "e2">>] # None

\* C5: a dirty pair reached by the pass while one of its upstream data is
\* missing keeps exactly the entry it had (or none).
C5_MissingDataKeepsEntry ==
    [][SpecializeStep =>
          \A p \in VisiblePairs :
             (PairIsDirty(p) /\ DataIsMissing(p[2])) =>
                /\ specialized_material_pipeline_cache'[p]
                      = specialized_material_pipeline_cache[p]
                /\ p \in slog'.attempted
                /\ p \notin slog'.calls]_vars

\* A pass reached a pair with an entry whose data was missing (the entry
\* stays, older than the entity's tick), and one without an entry.
C5_Witness ==
    /\ pc = "queue"
    /\ \E p \in slog.attempted :
          /\ DataIsMissing(p[2])
          /\ specialized_material_pipeline_cache[p] # None
          /\ PairIsDirty(p)
    /\ \E p \in slog.attempted :
          /\ DataIsMissing(p[2])
          /\ specialized_material_pipeline_cache[p] = None

\* C6: every dirty visible pair is reached by every pass; a reached pair that
\* is not stored stays dirty; and a reached pair whose data is all present
\* and whose key the pipeline cache accepts gets an entry with the tick of
\* this pass.
C6_RetryUntilCached ==
    [][SpecializeStep =>
          /\ \A p \in VisiblePairs : PairIsDirty(p) => p \in slog'.attempted
          /\ \A p \in slog'.attempted :
                IF ~DataIsMissing(p[2]) /\ p \notin slog'.errors
                THEN /\ specialized_material_pipeline_cache'[p] # None
                     /\ Get(specialized_material_pipeline_cache'[p]).tick
                           = change_tick'
                     /\ ~PairIsDirty(p)'
                ELSE PairIsDirty(p)']_vars

\* A pair left dirty by the previous pass for want of data is cached by this
\* one.
C6_Witness ==
    /\ pc = "queue"
    /\ slog.retried # {}
    /\ \A p \in slog.retried :
          Get(specialized_material_pipeline_cache[p]).tick = change_tick

\* The visible sets without the pair p.
VisibleWithout(p) ==
    [v \in ViewSet |->
        IF v = p[1] THEN RemoveFrom(visible[v], p[2]) ELSE visible[v]]

\* C7: when the pipeline cache answers an error for a pair, the pass goes on:
\* the pair keeps its entry, and every other pair, and the pipeline cache,
\* end as in a pass over the same visible sets without the failing pair.
C7_ErrorDoesNotAbort ==
    [][SpecializeStep =>
          \A p \in slog'.errors :
             /\ specialized_material_pipeline_cache'[p]
                   = specialized_material_pipeline_cache[p]
             /\ ~slog'.panicked
             /\ LET alt == SpecializePass(VisibleWithout(p), change_tick + 1)
                IN  /\ \A q \in Pairs \ {p} :
                          specialized_material_pipeline_cache'[q] = alt.cache[q]
                    /\ pipelines' = alt.pipelines
                    /\ slog'.attempted \ {p} = alt.attempted
                    /\ slog'.stored = alt.stored]_vars

\* The pair (v1, e1) was rejected, and pairs that come after it in the
\* iteration were specialized in the same pass.
C7_Witness ==
    /\ pc = "queue"
    /\ <<"v1", "e1">> \in slog.errors
    /\ visible["v1"] = <<"e1", "e2">>
    /\ {<<"v1", "e2">>, <<"v2", "e2">>} \subseteq slog.stored

\* The entities with an item in a sorted phase (None: no such phase).
Sorted(phase) ==
    IF phase = None THEN {}
    ELSE {Get(phase)[i].entity : i \in 1..Len(Get(phase))}
InSomePhase(v, e) ==
    \/ e \in Binned(opaque_render_phases[v])
    \/ e \in Binned(alpha_mask_render_phases[v])
    \/ e \in Sorted(transmissive_render_phases[v])
    \/ e \in Sorted(transparent_render_phases[v])

\* C8: after the binning pass of a frame, a drawable whose specialization was
\* rejected for a view in that frame is in none of the four phases of the
\* view.
C8_RejectedIsSkipped ==
    [][QueueStep =>
          \A p \in slog.errors : ~InSomePhase(p[1], p[2])']_vars

\* C9: after the passes of a frame the cache holds no entry of an entity
\* that is no drawable any more (despawned, or its material removed).
C9_RemovedDrawableDropped ==
    [][QueueStep =>
          \A p \in Pairs :
             specialized_material_pipeline_cache'[p] # None =>
                (mesh3d[p[2]] # NONE /\ mesh_material[p[2]] # NONE)]_vars

\* C10: after the binning pass of a view, an entity that is not in the
\* view's visible set has no item in the view's Opaque and AlphaMask phases.
C10_SweepRemovesInvisible ==
    [][QueueStep =>
          \A v \in ViewSet : \A e \in Entities :
             (~QueueSkipsView(v) /\ e \notin Range(visible[v])) =>
                /\ e \notin Binned(opaque_render_phases'[v])
                /\ e \notin Binned(alpha_mask_render_phases'[v])]_vars

\* The last pass swept from the Opaque phase of a view an entity that the
\* view saw and binned a frame before and does not see any more.
C10_Witness ==
    /\ pc = "update"
    /\ frame >= 2
    /\ \E t \in qlog.swept :
          /\ t[2] = "Opaque"
          /\ t[3] \notin Range(visible[t[1]])
          /\ mesh3d[t[3]] # NONE
          /\ view_active[t[1]]

\* The phase the mapping table gives to an alpha mode and a transmission flag.
TablePhase(alpha_mode, reads) ==
    CASE alpha_mode \in {"Blend", "Premultiplied", "Add", "Multiply"}
            -> "Transparent"
      [] alpha_mode \in {"Opaque", "AlphaToCoverage", "Mask"} /\ reads
            -> "Transmissive"
      [] alpha_mode \in {"Opaque", "AlphaToCoverage"} /\ ~reads -> "Opaque"
      [] alpha_mode = "Mask" /\ ~reads -> "AlphaMask"

\* C11: the render phase type of every prepared material is the one the
\* mapping table gives to the alpha mode and the transmission flag of the
\* material it was prepared from.
C11_PhaseClassification ==
    \A m \in Materials :
       render_materials[m] # None =>
          Get(render_materials[m]).properties.render_phase_type
             = TablePhase(material_assets[m].alpha_mode,
                          material_assets[m].reads_view_transmission_texture)

\* A prepared material with alpha mode Mask that reads the transmission
\* texture (Transmissive by the override), next to an Opaque one.
C11_Witness ==
    /\ material_assets["m2"].alpha_mode = "Mask"
    /\ material_assets["m2"].reads_view_transmission_texture
    /\ render_materials["m2"] # None
    /\ Get(render_materials["m2"]).properties.render_phase_type = "Transmissive"
    /\ render_materials["m1"] # None
    /\ Get(render_materials["m1"]).properties.render_phase_type = "Opaque"

\* The phases of view v that hold an item of entity e.
PhasesOf(v, e) ==
    {ph \in PhaseTypes :
        \/ ph = "Opaque" /\ e \in Binned(opaque_render_phases[v])
        \/ ph = "AlphaMask" /\ e \in Binned(alpha_mask_render_phases[v])
        \/ ph = "Transmissive" /\ e \in Sorted(transmissive_render_phases[v])
        \/ ph = "Transparent" /\ e \in Sorted(transparent_render_phases[v])}

\* The phase the material an entity has now is classified into.
CurrentPhase(e) ==
    TablePhase(material_assets[mesh_material[e]].alpha_mode,
               material_assets[mesh_material[e]].reads_view_transmission_texture)

\* C12: after every binning pass a drawable is in at most one of the four
\* phases of a view, and that phase is the one of the alpha mode and the
\* transmission flag of the material it has now.
C12_OnePhaseOfCurrentMaterial ==
    [][QueueStep =>
          \A v \in ViewSet : \A e \in Entities :
             (mesh3d[e] # NONE /\ mesh_material[e] # NONE) =>
                /\ Cardinality(PhasesOf(v, e)') <= 1
                /\ PhasesOf(v, e)' \subseteq {CurrentPhase(e)}]_vars

\* The prepared material of the instance of entity e is an Opaque-phase
\* material whose resolved render method is Deferred.
IsDeferredOpaque(e) ==
    /\ render_material_instances[e] # NONE
    /\ render_materials[render_material_instances[e]] # None
    /\ LET props == Get(render_materials[render_material_instances[e]]).properties
       IN  /\ props.render_phase_type = "Opaque"
           /\ props.render_method = "Deferred"

\* C13: the binning pass adds no deferred opaque drawable to the forward
\* Opaque phase of a view, and after the pass no deferred opaque drawable
\* the view sees is left in that phase.
C13_DeferredNotInForwardOpaque ==
    [][QueueStep =>
          \A v \in ViewSet : \A e \in Range(visible[v]) :
             (~QueueSkipsView(v) /\ IsDeferredOpaque(e)) =>
                /\ <<v, "Opaque", e>> \notin qlog'.added
                /\ e \notin Binned(opaque_render_phases'[v])]_vars

\* The prepared material of the instance of entity e is an AlphaMask-phase
\* material whose resolved render method is Deferred.
IsDeferredAlphaMask(e) ==
    /\ render_material_instances[e] # NONE
    /\ render_materials[render_material_instances[e]] # None
    /\ LET props == Get(render_materials[render_material_instances[e]]).properties
       IN  /\ props.render_phase_type = "AlphaMask"
           /\ props.render_method = "Deferred"

\* C14: the binning pass adds no drawable whose material is a Mask material
\* with resolved render method Deferred to the forward AlphaMask phase.
C14_DeferredMaskNotInForwardAlphaMask ==
    [][QueueStep =>
          \A v \in ViewSet : \A e \in Range(visible[v]) :
             (~QueueSkipsView(v) /\ IsDeferredAlphaMask(e)) =>
                <<v, "AlphaMask", e>> \notin qlog'.added]_vars

\* C15: the render method of every prepared material is Forward or
\* Deferred: the method of its material when that is Forward or Deferred,
\* and the one of DefaultOpaqueRendererMethod when it is Auto.
C15_RenderMethodResolved ==
    \A m \in Materials :
       render_materials[m] # None =>
          LET stored == Get(render_materials[m]).properties.render_method
              given == material_assets[m].opaque_render_method
          IN  /\ stored \in {"Forward", "Deferred"}
              /\ given \in {"Forward", "Deferred"} => stored = given
              /\ given = "Auto" => stored = default_opaque_render_method

\* An Auto material prepared under the deferred default, next to a Forward
\* one.
C15_Witness ==
    /\ material_assets["m2"].opaque_render_method = "Auto"
    /\ default_opaque_render_method = "Deferred"
    /\ render_materials["m2"] # None
    /\ Get(render_materials["m2"]).properties.render_method = "Deferred"
    /\ render_materials["m1"] # None
    /\ Get(render_materials["m1"]).properties.render_method = "Forward"

\* The key and the vertex layout the pass uses for a pair whose data is
\* present.
KeyOf(p) == BuildKey(p[1], p[2])
LayoutOf(p) == MeshLayout(render_mesh_instances[p[2]])
SameComponents(a, b) ==
    a.mesh_key = b.mesh_key /\ a.bind_group_data = b.bind_group_data

KeyInputs(p) ==
    LET material == Get(render_materials[render_material_instances[p[2]]])
    IN  [view_key |-> Get(view_key_cache[p[1]]),
         mesh_bits |-> MeshKeyBits(render_mesh_instances[p[2]]),
         alpha_mode |-> material.properties.alpha_mode,
         transmission |-> material.properties.reads_view_transmission_texture,
         flags |-> MeshInstanceFlags(p[2]),
         data |-> allocator[material.binding.group].data]

\* The key as a function of its inputs: those of KeyInputs, whether the
\* entity has a lightmap, whether the lightmap samples bicubically, and
\* whether the entity has crossfading visibility ranges.
KeyFunction(in, lightmapped, bicubic, crossfading) ==
    [mesh_key |->
        in.view_key \cup in.mesh_bits
          \cup (IF in.transmission THEN {"READS_VIEW_TRANSMISSION_TEXTURE"} ELSE {})
          \cup alpha_mode_pipeline_key(in.alpha_mode, MsaaSamples(in.view_key))
          \cup (IF lightmapped THEN {"LIGHTMAPPED"} ELSE {})
          \cup (IF lightmapped /\ bicubic THEN {"LIGHTMAP_BICUBIC_SAMPLING"} ELSE {})
          \cup (IF crossfading THEN {"VISIBILITY_RANGE_DITHER"} ELSE {})
          \cup (IF "MOTION_VECTOR_PREPASS" \in in.view_key
                THEN in.flags \cap {"HAS_PREVIOUS_SKIN", "HAS_PREVIOUS_MORPH"}
                ELSE {}),
     bind_group_data |-> in.data]

\* C17: the key built for a pair is a function of the view key, the mesh
\* bits, the material's alpha mode and transmission flag, the skin and morph
\* flags, the extra data, and of the entity's lightmap (present, bicubic) and
\* crossfading visibility range, and of nothing else.
C17_KeyIsFunctionOfInputsAndLightmap ==
    [][SpecializeStep =>
          \A p \in slog'.calls :
             KeyOf(p) = KeyFunction(KeyInputs(p),
                                    render_lightmaps[p[2]].present,
                                    render_lightmaps[p[2]].bicubic_sampling,
                                    p[2] \in render_visibility_ranges)]_vars

\* A pass has built the keys of two entities whose listed inputs are equal
\* and whose lightmaps or visibility ranges differ.
C17_Witness ==
    /\ pc = "queue"
    /\ \E p \in slog.calls : \E q \in slog.calls :
          /\ p[2] # q[2]
          /\ ~DataIsMissing(p[2]) /\ ~DataIsMissing(q[2])
          /\ KeyInputs(p) = KeyInputs(q)
          /\ \/ render_lightmaps[p[2]] # render_lightmaps[q[2]]
             \/ (p[2] \in render_visibility_ranges) # (q[2] \in render_visibility_ranges)
          /\ KeyOf(p) # KeyOf(q)

\* C17 as stated: pairs whose view key, mesh bits, alpha mode, transmission
\* flag, skin and morph flags and extra data are equal get equal keys.
C17_KeyIsFunctionOfListedInputs ==
    [][SpecializeStep =>
          \A p \in slog'.calls : \A q \in slog'.calls :
             KeyInputs(p) = KeyInputs(q) => KeyOf(p) = KeyOf(q)]_vars

\* The bind group indices carried by the batch-set keys of a binned phase.
BinnedGroups(phase) ==
    {Get(Get(phase).cached[e]).batch_set_key.material_bind_group_index :
        e \in Binned(phase)}

\* C18: after a binning pass, in the views the pass worked on, no item of the
\* Opaque or AlphaMask phase carries a batch-set key whose material bind
\* group index is that of a freed allocation.
C18_NoBinnedItemOfFreedAllocation ==
    [][QueueStep =>
          \A v \in ViewSet :
             ~QueueSkipsView(v) =>
                \A g \in BinnedGroups(opaque_render_phases'[v])
                           \cup BinnedGroups(alpha_mask_render_phases'[v]) :
                   allocator'[g].state # "free"]_vars

PrepareAssetsStep == pc = "prepare_assets" /\ pc' = "check_views"

\* The materials that have a binding id, and the groups in use.
BoundMaterials(bindings) == {m \in Materials : bindings[m] # None}
GroupsInUse(a) == {g \in GroupIds : a[g].state # "free"}

\* C19: after any prepare_assets pass the bindings of two materials are two
\* groups and the groups in use are exactly the bound ones (a group is
\* allocated only for a material without a binding and freed once, when its
\* material is unloaded); a bound material that is not unloaded keeps its
\* binding id, whether its preparation succeeds or is retried; an unloaded
\* material that is not prepared again has no binding, and unloading a
\* material without a binding leaves the allocator as it is.
C19_OneBindingPerMaterial ==
    [][PrepareAssetsStep =>
          LET gone == asset_events.mat_removed
              again == asset_events.mat_modified
          IN  /\ \A m \in BoundMaterials(render_material_bindings') :
                   \A n \in BoundMaterials(render_material_bindings') :
                      m # n => Get(render_material_bindings'[m]).group
                                  # Get(render_material_bindings'[n]).group
              /\ GroupsInUse(allocator')
                    = {Get(render_material_bindings'[m]).group :
                          m \in BoundMaterials(render_material_bindings')}
              /\ \A m \in BoundMaterials(render_material_bindings) \ gone :
                    render_material_bindings'[m] = render_material_bindings[m]
              /\ \A m \in gone \ again : render_material_bindings'[m] = None
              /\ (gone \cap BoundMaterials(render_material_bindings) = {}
                    /\ again \subseteq BoundMaterials(render_material_bindings))
                    => GroupsInUse(allocator') = GroupsInUse(allocator)]_vars

\* After a pass: m1, which had group 0, was unloaded and its group is free,
\* while m2 keeps group 1.
C19_Witness ==
    /\ pc = "check_views"
    /\ render_material_bindings["m1"] = None
    /\ render_material_bindings["m2"] = Some([group |-> 1, slot |-> 0])
    /\ allocator[0].state = "free"
    /\ allocator[1].state # "free"

\* The material the render world has for an entity has no allocation: its
\* prepared asset and its binding are gone.
MaterialIsFreed(e) ==
    /\ render_material_instances[e] # NONE
    /\ render_material_bindings[render_material_instances[e]] = None
    /\ render_materials[render_material_instances[e]] = None

\* C20: the pass that unloads materials and frees their allocations leaves
\* every cache entry as it is, and the specialization pass attempts every
\* dirty visible pair whose material has no allocation, does not call
\* specialize for it, leaves its cache entry as it is, and does not panic.
C20_FreedMaterialIsSkipped ==
    [][/\ PrepareAssetsStep =>
             specialized_material_pipeline_cache'
                = specialized_material_pipeline_cache
       /\ SpecializeStep =>
             \A p \in VisiblePairs :
                (PairIsDirty(p) /\ MaterialIsFreed(p[2])) =>
                   /\ p \in slog'.attempted
                   /\ p \notin slog'.calls
                   /\ specialized_material_pipeline_cache'[p]
                         = specialized_material_pipeline_cache[p]
                   /\ ~slog'.panicked]_vars

\* After a pass: a pair that has an entry from an earlier frame was dirty,
\* its material m1 has been unloaded and group 0 freed, and the pair was
\* attempted and skipped.
C20_Witness ==
    /\ pc = "queue"
    /\ ~slog.panicked
    /\ allocator[0].state = "free"
    /\ \E p \in slog.attempted \ slog.calls :
          /\ render_material_instances[p[2]] = "m1"
          /\ MaterialIsFreed(p[2])
          /\ specialized_material_pipeline_cache[p] # None

\* The view has at least one of the four phases.
HasSomePhase(v) ==
    \/ opaque_render_phases[v] # None
    \/ alpha_mask_render_phases[v] # None
    \/ transmissive_render_phases[v] # None
    \/ transparent_render_phases[v] # None

\* The binned phase holds no entity that this frame's pass did not validate
\* or add: it has been swept.
IsSwept(phase) == phase # None /\ Binned(phase) \subseteq Get(phase).valid

\* The visible entities of a view that the binning pass has to place: they
\* have a cache entry and their material and mesh are present.
Placeable(v) ==
    {e \in Range(visible[v]) :
        /\ specialized_material_pipeline_cache[<<v, e>>] # None
        /\ render_material_instances[e] # NONE
        /\ render_mesh_instances[e] # NONE
        /\ render_materials[render_material_instances[e]] # None
        /\ ~IsDeferredOpaque(e)}

QueueDataIsMissing(v, e) ==
    \/ specialized_material_pipeline_cache[<<v, e>>] = None
    \/ render_material_instances[e] = NONE
    \/ render_mesh_instances[e] = NONE
    \/ render_materials[render_material_instances[e]] = None

\* C22: after the binning pass, in a view the pass worked on, a visible
\* drawable whose cache entry, material instance, mesh instance or prepared
\* material is missing is in none of the four phases of the view, and every
\* other visible drawable that is to be placed is in one.
C22_MissingDataIsSkipped ==
    [][QueueStep =>
          \A v \in ViewSet :
             ~QueueSkipsView(v) =>
                /\ \A e \in Range(visible[v]) :
                      QueueDataIsMissing(v, e) => ~InSomePhase(v, e)'
                /\ \A e \in Placeable(v) : InSomePhase(v, e)']_vars

\* C23: in every frame the preparation of materials and meshes is complete
\* when the specialization pass runs (no asset event is left and only the
\* preparation changes the prepared assets), the specialization pass is what
\* precedes the binning pass and the only writer of the cache, and the
\* binning pass of the frame reads what the specialization of the same frame
\* wrote: the entries stored in the frame carry the frame's tick, and the
\* items of the pairs stored in the frame carry the stored pipeline.
C23_PrepareThenSpecializeThenQueue ==
    [][/\ (render_materials' # render_materials \/ allocator' # allocator
             \/ render_meshes' # render_meshes) => PrepareAssetsStep
       /\ pc' = "specialize" =>
             (pc = "check_views" /\ asset_events = NoEvents /\ frame' = frame)
       /\ (pc' = "check_views" /\ pc # "check_views") => PrepareAssetsStep
       /\ (specialized_material_pipeline_cache'
              # specialized_material_pipeline_cache \/ slog' # slog) =>
             (SpecializeStep /\ asset_events = NoEvents /\ frame' = frame)
       /\ (pc' = "queue" /\ pc # "queue") => SpecializeStep
       /\ QueueStep =>
             /\ frame' = frame + 1
             /\ \A p \in slog.stored :
                   /\ Get(specialized_material_pipeline_cache[p]).tick = change_tick
                   /\ \A phase \in {opaque_render_phases'[p[1]],
                                    alpha_mask_render_phases'[p[1]]} :
                         p[2] \in Binned(phase) =>
                            /\ Get(Get(phase).cached[p[2]]).change_tick = change_tick
                            /\ Get(Get(phase).cached[p[2]]).batch_set_key.pipeline
                                  = Get(specialized_material_pipeline_cache[p]).pipeline]_vars

\* After the binning pass of the second frame: a pair was specialized again
\* in that frame, with a material prepared in that frame, and its bin
\* carries the tick and the pipeline stored in that frame.
C23_Witness ==
    /\ pc = "update"
    /\ frame = 3
    /\ <<"v1", "e1">> \in slog.replaced
    /\ "e1" \in Binned(opaque_render_phases["v1"])
    /\ Get(Get(opaque_render_phases["v1"]).cached["e1"]).change_tick
          = Get(specialized_material_pipeline_cache[<<"v1", "e1">>]).tick
    /\ Get(specialized_material_pipeline_cache[<<"v1", "e1">>]).tick = change_tick

PrepareBindGroupsStep == pc = "prepare_bind_groups" /\ pc' = "update"

\* C24: a frame ends by one pass of prepare_material_bind_groups; bind
\* groups are created in that pass only; when it runs the preparation of
\* the frame's materials is complete, and after it every group that was given
\* contents by init or init_custom, in this frame or before, has its bind
\* group; the pass changes nothing the specialization pass writes, and the
\* specialization pass creates no bind group.
C24_BindGroupsPreparedOncePerFrame ==
    [][/\ (bind_groups' \ bind_groups # {}) => PrepareBindGroupsStep
       /\ (pc' = "update" /\ pc # "update") => PrepareBindGroupsStep
       /\ (pc' = "prepare_bind_groups" /\ pc # "prepare_bind_groups") => QueueStep
       /\ PrepareBindGroupsStep =>
             /\ asset_events = NoEvents
             /\ allocator' = allocator
             /\ bind_groups' = {g \in GroupIds : allocator[g].state = "initialized"}
             /\ specialized_material_pipeline_cache'
                   = specialized_material_pipeline_cache
             /\ pipelines' = pipelines
             /\ slog' = slog
       /\ SpecializeStep => bind_groups' = bind_groups
       /\ PrepareAssetsStep =>
             \A g \in bind_groups' :
                g \in bind_groups /\ allocator'[g] = allocator[g]]_vars

\* The end of a frame in whose preparation a material was given contents
\* after a retry: its group had no bind group in the frame before and has
\* one now, as every group with contents has.
C24_Witness ==
    /\ pc = "update"
    /\ frame = 2
    /\ slog.retried # {}
    /\ bind_groups = {0, 1}
    /\ \A g \in GroupIds : allocator[g].state = "initialized"

\* The prepared material of the entity is opaque, forward, and does not read
\* the view transmission texture.
IsForwardOpaque(e) ==
    /\ render_material_instances[e] # NONE
    /\ render_materials[render_material_instances[e]] # None
    /\ LET props == Get(render_materials[render_material_instances[e]]).properties
       IN  /\ props.alpha_mode = "Opaque"
           /\ props.render_method = "Forward"
           /\ ~props.reads_view_transmission_texture

\* C25: a visible pair that has no cache entry and whose mesh and material
\* data are present and accepted gets, in one specialization pass, an entry
\* with the id of an existing pipeline; and after the binning pass of the
\* frame a pair specialized for the first time whose material is opaque and
\* forward is in the Opaque phase of the view and in no other phase.
C25_FirstSpecialization ==
    [][/\ SpecializeStep =>
             \A p \in VisiblePairs :
                (/\ specialized_material_pipeline_cache[p] = None
                 /\ ~DataIsMissing(p[2])
                 /\ LayoutOf(p) \notin declined_layouts) =>
                   /\ p \in slog'.stored \ slog'.replaced
                   /\ specialized_material_pipeline_cache'[p] # None
                   /\ Get(specialized_material_pipeline_cache'[p]).pipeline
                         \in 1..Len(pipelines')
       /\ QueueStep =>
             \A p \in slog.stored \ slog.replaced :
                IsForwardOpaque(p[2]) => PhasesOf(p[1], p[2])' = {"Opaque"}]_vars

\* After the first frame: e1, opaque, was specialized for the first time
\* and is in the Opaque phase of v1 only.
C25_Witness ==
    /\ pc = "prepare_bind_groups"
    /\ frame = 1
    /\ <<"v1", "e1">> \in slog.stored \ slog.replaced
    /\ IsForwardOpaque("e1")
    /\ specialized_material_pipeline_cache[<<"v1", "e1">>] # None
    /\ PhasesOf("v1", "e1") = {"Opaque"}

\* The prepared material of the entity is a Blend material.
IsBlend(e) ==
    /\ render_material_instances[e] # NONE
    /\ render_materials[render_material_instances[e]] # None
    /\ LET props == Get(render_materials[render_material_instances[e]]).properties
       IN  props.alpha_mode = "Blend" /\ props.render_phase_type = "Transparent"

\* C26: when an entity binned in the Opaque phase of a view was reported as
\* changed and its material is now a Blend material whose data is present
\* and accepted, the specialization pass replaces the pair's entry by one
\* with a newer tick; the binning pass of the frame then removes the entity
\* from the Opaque phase by the sweep, adds it to the Transparent phase, and
\* leaves it in the Transparent phase only.
C26_SwapOpaqueToBlend ==
    [][/\ SpecializeStep =>
             \A p \in VisiblePairs :
                (/\ EntityChangedThisFrame(p[2])
                 /\ p[2] \in Binned(opaque_render_phases[p[1]])
                 /\ specialized_material_pipeline_cache[p] # None
                 /\ IsBlend(p[2])
                 /\ ~DataIsMissing(p[2])
                 /\ LayoutOf(p) \notin declined_layouts) =>
                   /\ p \in slog'.replaced
                   /\ Get(specialized_material_pipeline_cache'[p]).tick
                         > Get(specialized_material_pipeline_cache[p]).tick
                   /\ Get(specialized_material_pipeline_cache'[p]).tick
                         = change_tick'
       /\ QueueStep =>
             \A p \in slog.replaced :
                (p[2] \in Binned(opaque_render_phases[p[1]]) /\ IsBlend(p[2])) =>
                   /\ <<p[1], "Opaque", p[2]>> \in qlog'.swept
                   /\ <<p[1], "Transparent", p[2]>> \in qlog'.added
                   /\ <<p[1], "Opaque", p[2]>> \notin qlog'.validated
                   /\ PhasesOf(p[1], p[2])' = {"Transparent"}]_vars

\* After the second frame: e1 was opaque and binned, its material was
\* swapped to the Blend material m2, the pair was specialized again, swept
\* from the Opaque phase and added to the Transparent phase.
C26_Witness ==
    /\ pc = "prepare_bind_groups"
    /\ mesh_material["e1"] = "m2"
    /\ IsBlend("e1")
    /\ <<"v1", "e1">> \in slog.replaced
    /\ <<"v1", "Opaque", "e1">> \in qlog.swept
    /\ <<"v1", "Transparent", "e1">> \in qlog.added
    /\ PhasesOf("v1", "e1") = {"Transparent"}

\* The entry of type N for the pair is up to date, and the Opaque or
\* AlphaMask bin of the entity was cached under it.
OtherEntryIsUpToDate(v, e) ==
    LET entry == other_specialized_material_pipeline_cache[<<v, e>>]
    IN  /\ e \in OtherMaterialEntities
        /\ e \notin entities_needing_specialization
        /\ entry # None
        /\ Get(view_specialization_ticks[v]) <= Get(entry).tick
        /\ Get(other_entity_specialization_ticks[e]) <= Get(entry).tick
OtherBinIsUpToDate(phase, v, e) ==
    /\ phase # None
    /\ Get(phase).cached[e] # None
    /\ Get(Get(phase).cached[e]).change_tick
          = Get(other_specialized_material_pipeline_cache[<<v, e>>]).tick

\* C27: the binning pass of type M leaves the cache and the entity ticks of
\* type N as they are, and it removes from the Opaque and the AlphaMask phase
\* of a view no bin of a visible drawable of type N whose entry is up to
\* date.
C27_NoCrossTypeInterference ==
    [][QueueStep =>
          /\ other_specialized_material_pipeline_cache'
                = other_specialized_material_pipeline_cache
          /\ other_entity_specialization_ticks'
                = other_entity_specialization_ticks
          /\ \A v \in ViewSet : \A e \in Range(visible[v]) :
                (~QueueSkipsView(v) /\ OtherEntryIsUpToDate(v, e)) =>
                   /\ OtherBinIsUpToDate(opaque_render_phases[v], v, e)
                         => e \in Binned(opaque_render_phases'[v])
                   /\ OtherBinIsUpToDate(alpha_mask_render_phases[v], v, e)
                         => e \in Binned(alpha_mask_render_phases'[v])]_vars


\* C28: the specialization pass never panics: every visible entity of a
\* view the pass processes has a tick in EntitySpecializationTicks, and the
\* view has one in ViewSpecializationTicks, so both unwrap calls succeed.
TicksArePresent(p) ==
    /\ view_specialization_ticks[p[1]] # None
    /\ entity_specialization_ticks[p[2]] # None
C28_UnwrapsAlwaysSucceed ==
    [][SpecializeStep =>
         /\ \A p \in VisiblePairs : TicksArePresent(p)
         /\ ~slog'.panicked]_vars


\* The pipeline the cache entry of the pair refers to is not compiled yet.
IsPending(p) ==
    /\ specialized_material_pipeline_cache[p] # None
    /\ Get(specialized_material_pipeline_cache[p]).pipeline
          \notin ready_pipelines

\* C29: pipeline compilation never blocks a frame: whatever the state of the
\* pipelines, the specialization pass, when it is its turn, runs to its end
\* without aborting and the binning pass can take its step; the
\* specialization pass stores, under the tick of the run, the id of every successful specialize call,
\* compiled or not; and the binning pass places every visible entity that
\* has an entry and its data, whether the pipeline of the entry is compiled
\* or not.
C29_CompilationNeverBlocks ==
    /\ [](/\ pc = "specialize" =>
                ~SpecializePass(visible, change_tick + 1).panicked
          /\ pc = "queue" => ENABLED QueueMaterialMeshes)
    /\ [][/\ SpecializeStep =>
                /\ slog'.stored = slog'.calls \ slog'.errors
                /\ \A p \in slog'.stored :
                      /\ specialized_material_pipeline_cache'[p] # None
                      /\ Get(specialized_material_pipeline_cache'[p]).tick
                            = change_tick'
                      /\ Get(specialized_material_pipeline_cache'[p]).pipeline
                            \in 1..Len(pipelines')
          /\ QueueStep =>
                \A v \in ViewSet : ~QueueSkipsView(v) =>
                   \A e \in Placeable(v) : PhasesOf(v, e)' # {}]_vars

\* After the last frame: the pass of the frame stored an entry whose pipeline
\* is still pending and one whose pipeline is compiled, and both entities
\* are in a phase.
C29_Witness ==
    /\ pc = "prepare_bind_groups"
    /\ frame = MaxFrames
    /\ \E p, q \in slog.stored :
          /\ IsPending(p)
          /\ ~IsPending(q)
          /\ PhasesOf(p[1], p[2]) # {}
          /\ PhasesOf(q[1], q[2]) # {}


\* The entries the map holds for a pair.
EntriesOf(p) == {en \in cache_map : en.key = p}

\* C30: the cache holds at most one entry per (view, entity) pair, the one
\* a lookup of the pair returns; a specialization pass that stores a pair
\* which had an entry replaces that entry by (tick of the run, pipeline id),
\* a pair stored for the first time adds one entry, and the entries of the
\* other pairs stay as they were.
C30_OneEntryPerPair ==
    /\ [](\A p \in Pairs :
            /\ Cardinality(EntriesOf(p)) <= 1
            /\ specialized_material_pipeline_cache[p] = None
                  <=> EntriesOf(p) = {}
            /\ specialized_material_pipeline_cache[p] # None =>
                  EntriesOf(p) =
                     {[key |-> p,
                       value |-> Get(specialized_material_pipeline_cache[p])]})
    /\ [][SpecializeStep =>
            /\ \A p \in slog'.replaced :
                  /\ EntriesOf(p) # {}
                  /\ EntriesOf(p)' \cap EntriesOf(p) = {}
                  /\ \A en \in EntriesOf(p)' : en.value.tick = change_tick'
            /\ \A p \in Pairs \ slog'.stored : EntriesOf(p)' = EntriesOf(p)
            /\ Cardinality(cache_map') = Cardinality(cache_map)
                  + Cardinality(slog'.stored \ slog'.replaced)]_vars

\* A pass has replaced the entry of (v1, e1): the map holds one entry for
\* the pair, with the tick of that pass.
C30_Witness ==
    /\ pc = "queue"
    /\ <<"v1", "e1">> \in slog.replaced
    /\ Cardinality(EntriesOf(<<"v1", "e1">>)) = 1
    /\ \A en \in EntriesOf(<<"v1", "e1">>) : en.value.tick = change_tick
    /\ Cardinality(cache_map) > 1


\* C31: a pair the pass specializes with success gets the entry (tick of the
\* run, id of the pipeline of its key and vertex layout); the entries of the
\* pairs the pass did not store are unchanged; and the stored pair is not
\* dirty when the pass ends.
C31_SuccessStoresTickAndVariant ==
    [][SpecializeStep =>
         /\ \A p \in slog'.stored :
               /\ specialized_material_pipeline_cache'[p] # None
               /\ Get(specialized_material_pipeline_cache'[p]).tick
                     = change_tick'
               /\ LET id == Get(specialized_material_pipeline_cache'[p]).pipeline
                  IN  /\ id \in 1..Len(pipelines')
                      /\ KeyEq(pipelines'[id].key, KeyOf(p))
                      /\ pipelines'[id].layout = LayoutOf(p)
               /\ ~PairIsDirty(p)'
         /\ \A p \in Pairs \ slog'.stored :
               specialized_material_pipeline_cache'[p]
                  = specialized_material_pipeline_cache[p]]_vars

\* A pass has specialized (v1, e1) again, with a pipeline that existed and
\* is not the newest, and has left the older entry of (v2, e1) alone.
C31_Witness ==
    /\ pc = "queue"
    /\ <<"v1", "e1">> \in slog.replaced
    /\ <<"v2", "e1">> \notin slog.stored
    /\ specialized_material_pipeline_cache[<<"v2", "e1">>] # None
    /\ Get(specialized_material_pipeline_cache[<<"v1", "e1">>]).tick = change_tick
    /\ Get(specialized_material_pipeline_cache[<<"v1", "e1">>]).pipeline
          < Len(pipelines)
    /\ Get(specialized_material_pipeline_cache[<<"v2", "e1">>]).tick < change_tick


\* The binned phase of a view, by name.
BinnedPhase(name, v) ==
    IF name = "Opaque" THEN opaque_render_phases[v]
    ELSE alpha_mask_render_phases[v]

\* Entity e is binned in the phase with the tick of the cache entry of (v, e).
BinnedUnderEntryTick(name, v, e) ==
    /\ specialized_material_pipeline_cache[<<v, e>>] # None
    /\ e \in Binned(BinnedPhase(name, v))
    /\ Get(Get(BinnedPhase(name, v)).cached[e]).change_tick
          = Get(specialized_material_pipeline_cache[<<v, e>>]).tick

\* C32: in a binning pass, a visible entity of a processed view that is
\* binned in the Opaque or AlphaMask phase under the tick of its cache entry
\* is validated, is not added to any phase, and is in the phase after the
\* sweep with the bin it had; and running the pass once more on what it left
\* adds nothing to the binned phases and leaves their contents as they are.
C32_ValidatedBinIsKept ==
    [][QueueStep =>
         \A v \in ViewSet : ~QueueSkipsView(v) =>
            /\ \A e \in Range(visible[v]), name \in {"Opaque", "AlphaMask"} :
                  BinnedUnderEntryTick(name, v, e) =>
                     /\ <<v, name, e>> \in qlog'.validated
                     /\ \A ph \in PhaseTypes : <<v, ph, e>> \notin qlog'.added
                     /\ e \in Binned(BinnedPhase(name, v)')
                     /\ Get(BinnedPhase(name, v)').cached[e]
                           = Get(BinnedPhase(name, v)).cached[e]
            /\ QueueView(v)'.opaque.cached
                  = Get(opaque_render_phases'[v]).cached
            /\ QueueView(v)'.alpha_mask.cached
                  = Get(alpha_mask_render_phases'[v]).cached
            /\ \A x \in QueueView(v)'.added :
                  x[1] \notin {"Opaque", "AlphaMask"}]_vars

\* The second frame has left e1 in the Opaque phase of v1 without adding it:
\* its bin of the first frame was validated.
C32_Witness ==
    /\ pc = "prepare_bind_groups"
    /\ frame = 2
    /\ <<"v1", "Opaque", "e1">> \in qlog.validated
    /\ <<"v1", "Opaque", "e1">> \notin qlog.added
    /\ BinnedUnderEntryTick("Opaque", "v1", "e1")


\* The key bits that encode an alpha mode, and the sample counts of Msaa.
AlphaKeyBits ==
    {"BLEND_PREMULTIPLIED_ALPHA", "BLEND_ALPHA", "BLEND_MULTIPLY",
     "MAY_DISCARD", "BLEND_ALPHA_TO_COVERAGE"}
MsaaSampleCounts == {1, 2, 4, 8}

\* The alpha mode of the prepared material of an entity.
AlphaModeOf(e) ==
    Get(render_materials[render_material_instances[e]]).properties.alpha_mode

\* C33: for every alpha mode and every MSAA setting alpha_mode_pipeline_key
\* gives: Premultiplied and Add BLEND_PREMULTIPLIED_ALPHA, Blend BLEND_ALPHA,
\* Multiply BLEND_MULTIPLY, Mask MAY_DISCARD, AlphaToCoverage MAY_DISCARD
\* without MSAA and BLEND_ALPHA_TO_COVERAGE with it, Opaque no bit; only the
\* result for AlphaToCoverage depends on the MSAA setting; and the key of
\* every pair a pass specializes carries exactly these bits for the alpha
\* mode of its material and the MSAA setting of its view.
C33_AlphaModeKey ==
    [][SpecializeStep =>
         /\ \A s \in MsaaSampleCounts :
               /\ alpha_mode_pipeline_key("Premultiplied", s)
                     = {"BLEND_PREMULTIPLIED_ALPHA"}
               /\ alpha_mode_pipeline_key("Add", s)
                     = {"BLEND_PREMULTIPLIED_ALPHA"}
               /\ alpha_mode_pipeline_key("Blend", s) = {"BLEND_ALPHA"}
               /\ alpha_mode_pipeline_key("Multiply", s) = {"BLEND_MULTIPLY"}
               /\ alpha_mode_pipeline_key("Mask", s) = {"MAY_DISCARD"}
               /\ alpha_mode_pipeline_key("AlphaToCoverage", s)
                     = IF s = 1 THEN {"MAY_DISCARD"}
                       ELSE {"BLEND_ALPHA_TO_COVERAGE"}
               /\ alpha_mode_pipeline_key("Opaque", s) = {}
         /\ \A a \in AlphaModes \ {"AlphaToCoverage"} :
               \A s, t \in MsaaSampleCounts :
                  alpha_mode_pipeline_key(a, s) = alpha_mode_pipeline_key(a, t)
         /\ \A p \in slog'.stored :
               LET id == Get(specialized_material_pipeline_cache'[p]).pipeline
                   a == AlphaModeOf(p[2])
                   msaa == "MSAA_4" \in Get(view_key_cache[p[1]])
                   bits == pipelines'[id].key.mesh_key \cap AlphaKeyBits
               IN  /\ a \in {"Premultiplied", "Add"} =>
                         bits = {"BLEND_PREMULTIPLIED_ALPHA"}
                   /\ a = "Blend" => bits = {"BLEND_ALPHA"}
                   /\ a = "Multiply" => bits = {"BLEND_MULTIPLY"}
                   /\ a = "Mask" => bits = {"MAY_DISCARD"}
                   /\ a = "AlphaToCoverage" /\ ~msaa => bits = {"MAY_DISCARD"}
                   /\ a = "AlphaToCoverage" /\ msaa =>
                         bits = {"BLEND_ALPHA_TO_COVERAGE"}
                   /\ a = "Opaque" => bits = {}]_vars

\* A pass has specialized e2, whose material is AlphaToCoverage, for a view
\* with MSAA and for one without: the keys differ in the alpha bits.
C33_Witness ==
    /\ pc = "queue"
    /\ <<"v1", "e2">> \in slog.stored
    /\ specialized_material_pipeline_cache[<<"v2", "e2">>] # None
    /\ AlphaModeOf("e2") = "AlphaToCoverage"
    /\ "MSAA_4" \in Get(view_key_cache["v1"])
    /\ "MSAA_4" \notin Get(view_key_cache["v2"])
    /\ "BLEND_ALPHA_TO_COVERAGE" \in
          pipelines[Get(specialized_material_pipeline_cache[<<"v1", "e2">>])
                       .pipeline].key.mesh_key
    /\ "MAY_DISCARD" \in
          pipelines[Get(specialized_material_pipeline_cache[<<"v2", "e2">>])
                       .pipeline].key.mesh_key


\* C34: the key of every pair a pass specializes contains HAS_PREVIOUS_SKIN
\* (HAS_PREVIOUS_MORPH) exactly when the key of its view contains
\* MOTION_VECTOR_PREPASS and its mesh instance has the flag HAS_PREVIOUS_SKIN
\* (HAS_PREVIOUS_MORPH); so the key of a view without the prepass has
\* neither bit, whatever the flags of the instance are.
C34_PreviousFrameBitsNeedPrepass ==
    [][SpecializeStep =>
         \A p \in slog'.stored :
            LET id == Get(specialized_material_pipeline_cache'[p]).pipeline
                mesh_key == pipelines'[id].key.mesh_key
                prepass == "MOTION_VECTOR_PREPASS" \in Get(view_key_cache[p[1]])
            IN  \A bit \in {"HAS_PREVIOUS_SKIN", "HAS_PREVIOUS_MORPH"} :
                   bit \in mesh_key
                      <=> (prepass /\ bit \in render_mesh_instance_flags[p[2]])]_vars

\* A pass has specialized e1, whose instance has both flags, for v1 that
\* runs the prepass; v2 does not and the key of (v2, e1) has neither bit.
C34_Witness ==
    /\ pc = "queue"
    /\ <<"v1", "e1">> \in slog.stored
    /\ specialized_material_pipeline_cache[<<"v2", "e1">>] # None
    /\ {"HAS_PREVIOUS_SKIN", "HAS_PREVIOUS_MORPH"}
          \subseteq render_mesh_instance_flags["e1"]
    /\ "MOTION_VECTOR_PREPASS" \in Get(view_key_cache["v1"])
    /\ "MOTION_VECTOR_PREPASS" \notin Get(view_key_cache["v2"])
    /\ {"HAS_PREVIOUS_SKIN", "HAS_PREVIOUS_MORPH"} \subseteq
          pipelines[Get(specialized_material_pipeline_cache[<<"v1", "e1">>])
                       .pipeline].key.mesh_key
    /\ {"HAS_PREVIOUS_SKIN", "HAS_PREVIOUS_MORPH"} \cap
          pipelines[Get(specialized_material_pipeline_cache[<<"v2", "e1">>])
                       .pipeline].key.mesh_key = {}


\* C35: check_entities_needing_specialization leaves in the list exactly the
\* entities the Changed / AssetChanged filters match in that run, whatever
\* the list held before; extract_entities_needs_specialization gives the tick
\* of its run to exactly the listed entities and leaves every other tick as
\* it is; and no step of a frame removes or changes the tick of an entity
\* otherwise.
C35_ListRebuiltAndTicksOfListed ==
    [][/\ (pc = "update" /\ pc' = "extract_phases") =>
             /\ entities_needing_specialization'
                   = {e \in Entities : e \in changed /\ mesh3d[e] # NONE}
             /\ (entities_needing_specialization \ changed)
                   \cap entities_needing_specialization' = {}
       /\ ExtractTicksStep =>
             /\ \A e \in entities_needing_specialization :
                   entity_specialization_ticks'[e] = Some(change_tick')
             /\ \A e \in Entities \ entities_needing_specialization :
                   entity_specialization_ticks'[e]
                      = entity_specialization_ticks[e]
       /\ ~ExtractTicksStep =>
             entity_specialization_ticks' = entity_specialization_ticks
       /\ \A e \in Entities :
             entity_specialization_ticks[e] # None =>
                entity_specialization_ticks'[e] # None]_vars

\* In a later frame only e1 was listed: it has the tick of the extraction,
\* e2, listed in the first frame, has kept the tick it was given then.
C35_Witness ==
    /\ pc = "prepare_assets"
    /\ frame > 0
    /\ entities_needing_specialization = {"e1"}
    /\ entity_specialization_ticks["e1"] = Some(change_tick)
    /\ entity_specialization_ticks["e2"] # None
    /\ Get(entity_specialization_ticks["e2"]) < change_tick


\* C36: extract_mesh_materials keeps the two maps in step (an entity has an
\* entry in one exactly when it has one in the other, for the same asset);
\* an entity of the changed query gets its material id in both when a view
\* sees it and is removed from both when none does; an entity whose
\* ViewVisibility or MeshMaterial3d was removed and that is not in the
\* changed query is removed from both; any other entity keeps what it had.
C36_InstancesAndIdsInStep ==
    /\ [](\A e \in Entities :
            render_mesh_material_ids[e] =
               IF render_material_instances[e] = NONE THEN None
               ELSE Some(UntypedAssetId(render_material_instances[e])))
    /\ [][(pc = "extract_materials" /\ pc' = "extract_ticks") =>
            \A e \in Entities :
               /\ (e \in ChangedMeshesQuery /\ ViewVisibility(visible, e)) =>
                     /\ render_material_instances'[e] = mesh_material[e]
                     /\ render_mesh_material_ids'[e]
                           = Some(UntypedAssetId(mesh_material[e]))
               /\ (e \in ChangedMeshesQuery /\ ~ViewVisibility(visible, e)) =>
                     /\ render_material_instances'[e] = NONE
                     /\ render_mesh_material_ids'[e] = None
               /\ (e \in removed /\ e \notin ChangedMeshesQuery) =>
                     /\ render_material_instances'[e] = NONE
                     /\ render_mesh_material_ids'[e] = None
               /\ (e \notin removed /\ e \notin ChangedMeshesQuery) =>
                     /\ render_material_instances'[e]
                           = render_material_instances[e]
                     /\ render_mesh_material_ids'[e]
                           = render_mesh_material_ids[e]]_vars

\* The extraction of an earlier frame has put e1 with m1 into both maps;
\* the MeshMaterial3d of e1 was then removed and inserted again, with m2, in
\* one frame, whose extraction finds e1 removed and in the changed query.
C36_Witness ==
    /\ pc = "extract_materials"
    /\ frame > 0
    /\ "e1" \in removed
    /\ "e1" \in ChangedMeshesQuery
    /\ ViewVisibility(visible, "e1")
    /\ mesh_material["e1"] = "m2"
    /\ render_material_instances["e1"] = "m1"
    /\ render_mesh_material_ids["e1"] = Some(UntypedAssetId("m1"))


\* C37: for every item drawn, SetMaterialBindGroup::render answers Success
\* exactly when the entity has a material instance, the material is
\* prepared, the allocator has the group of its binding and the bind group
\* of that group is created; it then has set that bind group at the index
\* of the command, and in every other case it answers Skip and has set
\* nothing.
C37_SkipUnlessAllPresent ==
    [][rendered' # rendered =>
         \A p \in Pairs : render_pass'[p] # None =>
            LET e == p[2]
                m == render_material_instances[e]
                present ==
                   /\ m # NONE
                   /\ render_materials[m] # None
                   /\ allocator[Get(render_materials[m]).binding.group].state
                         = "initialized"
                   /\ Get(render_materials[m]).binding.group \in bind_groups
                r == Get(render_pass'[p])
            IN  /\ r.result \in {"Skip", "Success"}
                /\ r.result = "Success" <=> present
                /\ r.result = "Skip" => r.set = None
                /\ r.result = "Success" =>
                      r.set = Some([index |-> 2,
                                    bind_group |->
                                       Get(render_materials[m]).binding.group])]_vars

\* The phase was drawn with an item answered by Success and one by Skip:
\* e1 has all four data, e2 has a prepared material whose group has no
\* bind group yet.
C37_Witness ==
    /\ rendered = frame
    /\ render_pass[<<"v1", "e1">>] # None
    /\ Get(render_pass[<<"v1", "e1">>]).result = "Success"
    /\ render_pass[<<"v1", "e2">>] # None
    /\ Get(render_pass[<<"v1", "e2">>]).result = "Skip"
    /\ render_material_instances["e2"] # NONE
    /\ render_materials[render_material_instances["e2"]] # None
    /\ AllocatorHas(allocator,
          Get(render_materials[render_material_instances["e2"]]).binding.group)


\* C38: in a binning pass, on every processed view and for each of the two
\* sorted phases, the items the pass adds are, in the order of the visible
\* set and once each, those of the visible entities that have a cache
\* entry, a material instance, mesh data, a prepared material and this
\* phase type; each item has the pipeline id of the cache entry and the
\* rangefinder distance of the entity plus the depth bias of the material.
C38_SortedItemsInVisibleOrder ==
    [][pc = "queue" /\ pc' # pc =>
         \A v \in ViewSet : ~QueueSkipsView(v) =>
            \A name \in {"Transmissive", "Transparent"} :
               LET Qualifies(e) ==
                      /\ specialized_material_pipeline_cache[<<v, e>>] # None
                      /\ render_material_instances[e] # NONE
                      /\ render_mesh_instances[e] # NONE
                      /\ render_materials[render_material_instances[e]] # None
                      /\ Get(render_materials[render_material_instances[e]])
                            .properties.render_phase_type = name
                   expected == SelectSeq(visible[v], Qualifies)
                   before == IF name = "Transmissive"
                             THEN Get(transmissive_render_phases[v])
                             ELSE Get(transparent_render_phases[v])
                   after == IF name = "Transmissive"
                            THEN Get(transmissive_render_phases'[v])
                            ELSE Get(transparent_render_phases'[v])
               IN  /\ Len(after) = Len(before) + Len(expected)
                   /\ SubSeq(after, 1, Len(before)) = before
                   /\ \A i \in 1..Len(expected) :
                         LET e == expected[i]
                             item == after[Len(before) + i]
                             props == Get(render_materials[
                                         render_material_instances[e]]).properties
                         IN  /\ item.entity = e
                             /\ item.pipeline =
                                   Get(specialized_material_pipeline_cache[
                                          <<v, e>>]).pipeline
                             /\ item.distance =
                                   RangefinderDistance(v, e) + props.depth_bias]_vars


\* C39: the specialization pass leaves the four phases of every view
\* unchanged, and the binning pass leaves every specialization cache entry,
\* every entity tick and every view tick unchanged; no other step changes
\* the cache, and apart from the camera extraction that creates and clears
\* the phases no other step changes a phase.
C39_CacheAndPhasesHaveOneWriter ==
    [][/\ (pc = "specialize" /\ pc' # pc) =>
             /\ opaque_render_phases' = opaque_render_phases
             /\ alpha_mask_render_phases' = alpha_mask_render_phases
             /\ transmissive_render_phases' = transmissive_render_phases
             /\ transparent_render_phases' = transparent_render_phases
       /\ (pc = "queue" /\ pc' # pc) =>
             /\ specialized_material_pipeline_cache' =
                   specialized_material_pipeline_cache
             /\ entity_specialization_ticks' = entity_specialization_ticks
             /\ view_specialization_ticks' = view_specialization_ticks
       /\ specialized_material_pipeline_cache' #
             specialized_material_pipeline_cache => pc = "specialize"
       /\ phase_vars' # phase_vars => pc \in {"queue", "extract_phases"}]_vars

\* A frame after the first in which the specialization pass stored an entry
\* while a bin of the frame before was in a phase (the binning pass then
\* validated it), and the binning pass added an item while the cache held
\* entries.
C39_Witness ==
    /\ pc = "prepare_bind_groups"
    /\ frame >= 2
    /\ slog.stored # {}
    /\ qlog.validated # {}
    /\ qlog.added # {}
    /\ \E p \in Pairs : specialized_material_pipeline_cache[p] # None

====
